---- MODULE Spec2Model ----
(***************************************************************************)
(* A model of SimpleTable (src/text.py): the labelled text table, its      *)
(* structural mutations, its key/position resolver and its renderer.       *)
(*                                                                         *)
(* Python values are modelled as follows.                                  *)
(*   str        a tuple of one-character strings, <<"A", ".", "B">>        *)
(*   list       a tuple; positions in the model's inputs are Python's      *)
(*              0-based (and possibly negative) positions                  *)
(*   None       the constant None where a key is expected, NoneBorder      *)
(*              where a Border is expected, Nothing for an omitted         *)
(*              optional argument                                          *)
(*   exception  the name of its class in the variable raised ("" for a     *)
(*              call that returned)                                        *)
(***************************************************************************)
EXTENDS Integers, Sequences, FiniteSets, TLC

VARIABLES
    header,     \* self._header : list[HeadAttr]
    index,      \* self._index  : list[HeadAttr]
    table,      \* self._table  : list[list[Any]]
    attr,       \* self._attr   : list[list[TableAttr]]
    max_row,    \* self._max_row
    index_head, \* self._index_head : HeadAttr
    ident,      \* which Border object each cell of self._attr holds
    style,      \* the constructor's style arguments (sep, _rdiv_cnt, is_partp, ...)
    call,       \* the name of the last public call
    raised,     \* the exception the last call raised, "" when it returned
    out         \* what the last call returned or printed

vars == <<header, index, table, attr, max_row, index_head, ident, style, call, raised, out>>

tvars == <<header, index, table, attr, max_row, index_head, ident>>

----------------------------------------------------------------------------
(* Bounds of the model *)

MaxRow == 2
MaxCol == 2
MaxKeyCols == 3
MaxKeyRows == 1
MaxRRow == 2
MaxSel == 4
MaxARow == 2
MaxACol == 2
MaxLRow == 2

(* the table has room for one more row of at most n, one more column of at most n *)
RoomForRow(n) == max_row < n
RoomForCol(n) == Len(header) < n /\ \A i \in 1 .. Len(table) : Len(table[i]) < n

----------------------------------------------------------------------------
(* Python values *)

None == "None"

Nothing == [some |-> FALSE]
Some(v) == [some |-> TRUE, v |-> v]

NoneLoc == [t |-> "none", i |-> 0, k |-> ""]
IntLoc(n) == [t |-> "int", i |-> n, k |-> ""]
StrLoc(s) == [t |-> "str", i |-> 0, k |-> s]

Ok(v) == [raised |-> "", v |-> v]
Err(e) == [raised |-> e, v |-> 0]

Min(a, b) == IF a < b THEN a ELSE b
Max(a, b) == IF a > b THEN a ELSE b

(* list[i]: a negative position counts from the end *)
PyIdx(i, n) == IF i < 0 THEN i + n ELSE i
InRange(i, n) == 0 <= PyIdx(i, n) /\ PyIdx(i, n) < n
At(s, i) == s[PyIdx(i, Len(s)) + 1]

(* list.insert(i, x): the position is clamped to the list *)
InsertPos(i, n) ==
    IF i < 0 THEN Max(i + n, 0) ELSE Min(i, n)
Insert(s, i, x) ==
    LET p == InsertPos(i, Len(s))
    IN  SubSeq(s, 1, p) \o <<x>> \o SubSeq(s, p + 1, Len(s))

(* del list[i], for a position in range *)
Delete(s, i) ==
    LET p == PyIdx(i, Len(s))
    IN  SubSeq(s, 1, p) \o SubSeq(s, p + 2, Len(s))

(* list[i], list[j] = list[j], list[i], for positions in range *)
Swap(s, i, j) ==
    LET p == PyIdx(i, Len(s)) + 1
        q == PyIdx(j, Len(s)) + 1
    IN  [s EXCEPT ![p] = s[q], ![q] = s[p]]

----------------------------------------------------------------------------
(* The value types *)

Aligns == {"TL", "TC", "TR", "CL", "CC", "CR", "BL", "BC", "BR"}

Border(t, b, l, r) == [top |-> t, bottom |-> b, left |-> l, right |-> r]
DefaultBorder == Border(TRUE, TRUE, TRUE, TRUE)
NoneBorder == [none |-> TRUE]

HeadAttr(key, title) ==
    [key |-> key, title |-> title, width |-> 0, align |-> "TL",
     is_sep |-> TRUE, border |-> DefaultBorder, lofs |-> 1, rofs |-> 1]

TableAttr(align, is_sep, fs, border) ==
    [align |-> align, is_sep |-> is_sep, fs |-> fs, border |-> border]

DefaultFs == <<"{}">>

----------------------------------------------------------------------------
(* Key resolution *)

(* a key map in which a key met again takes the later position *)
RECURSIVE BuildId_unchecked(_, _, _)
BuildId_unchecked(idata, i, vdict) ==
    IF i >= Len(idata) THEN [raised |-> "", vdict |-> vdict]
    ELSE LET key == idata[i + 1].key
         IN  IF key = None THEN [raised |-> "KeyError", vdict |-> vdict]
             ELSE BuildId_unchecked(idata, i + 1,
                                    [k \in DOMAIN vdict \cup {key} |->
                                        IF k = key THEN i ELSE vdict[k]])

RECURSIVE BuildId(_, _, _)
BuildId(idata, i, vdict) ==
    IF i >= Len(idata) THEN [raised |-> "", vdict |-> vdict]
    ELSE LET key == idata[i + 1].key
         IN  IF key = None THEN [raised |-> "KeyError", vdict |-> vdict]
             ELSE IF key \in DOMAIN vdict
                  THEN [raised |-> "KeyError", vdict |-> vdict]
                  ELSE BuildId(idata, i + 1, vdict @@ (key :> i))

EmptyDict == [k \in {} |-> 0]

(* SimpleTable._get_id *)
get_id(idata) == BuildId(idata, 0, EmptyDict)

(* _IndexLocation.id *)
id(head) == BuildId(head, 0, EmptyDict)

(* d[key] of the dict a key map call returned *)
DictGet(r, key) ==
    IF r.raised # "" THEN Err(r.raised)
    ELSE IF key \notin DOMAIN r.vdict THEN Err("KeyError")
    ELSE Ok(r.vdict[key])

(* "self.header.id[index] if type(index) is str else index" *)
IdOf(head, loc) ==
    IF loc.t = "str" THEN DictGet(id(head), loc.k) ELSE Ok(loc.i)

(* a resolution in which a key as the end of a slice is its own position *)
get_index_exclusive(idata, idx, itype) ==
    IF itype = 1
    THEN IF idx.t = "int" THEN Ok(idx.i) ELSE DictGet(get_id(idata), idx.k)
    ELSE LET st == IF idx.start.t = "none" THEN Ok(0)
                   ELSE IF idx.start.t = "int" THEN Ok(idx.start.i)
                   ELSE DictGet(get_id(idata), idx.start.k)
             ed == IF idx.stop.t = "none" THEN Ok(Len(idata))
                   ELSE IF idx.stop.t = "int" THEN Ok(idx.stop.i)
                   ELSE DictGet(get_id(idata), idx.stop.k)
         IN  IF st.raised # "" THEN Err(st.raised)
             ELSE IF ed.raised # "" THEN Err(ed.raised)
             ELSE Ok([st |-> st.v, ed |-> ed.v])

(* SimpleTable._get_index: itype 1 resolves one position, itype 2 a slice
   [start, stop] of bounds, each omitted, an int or a key *)
get_index(idata, idx, itype) ==
    IF itype = 1
    THEN IF idx.t = "int" THEN Ok(idx.i) ELSE DictGet(get_id(idata), idx.k)
    ELSE LET st == IF idx.start.t = "none" THEN Ok(0)
                   ELSE IF idx.start.t = "int" THEN Ok(idx.start.i)
                   ELSE DictGet(get_id(idata), idx.start.k)
             ed == IF idx.stop.t = "none" THEN Ok(Len(idata))
                   ELSE IF idx.stop.t = "int" THEN Ok(idx.stop.i)
                   ELSE LET p == DictGet(get_id(idata), idx.stop.k)
                        IN  IF p.raised # "" THEN p ELSE Ok(p.v + 1)
         IN  IF st.raised # "" THEN Err(st.raised)
             ELSE IF ed.raised # "" THEN Err(ed.raised)
             ELSE Ok([st |-> st.v, ed |-> ed.v])

(* _IndexLocation._get_index *)
IndexLocation_get_index(head, idx, itype) ==
    IF itype = 1
    THEN IF idx.t = "int" THEN Ok(idx.i) ELSE DictGet(id(head), idx.k)
    ELSE LET st == IF idx.start.t = "none" THEN Ok(0)
                   ELSE IF idx.start.t = "int" THEN Ok(idx.start.i)
                   ELSE DictGet(id(head), idx.start.k)
             ed == IF idx.stop.t = "none" THEN Ok(Len(head))
                   ELSE IF idx.stop.t = "int" THEN Ok(idx.stop.i)
                   ELSE LET p == DictGet(id(head), idx.stop.k)
                        IN  IF p.raised # "" THEN p ELSE Ok(p.v + 1)
         IN  IF st.raised # "" THEN Err(st.raised)
             ELSE IF ed.raised # "" THEN Err(ed.raised)
             ELSE Ok([st |-> st.v, ed |-> ed.v])

----------------------------------------------------------------------------
(* The table object and the result of a call on it *)

Self == [header |-> header, index |-> index, table |-> table,
         attr |-> attr, max_row |-> max_row, index_head |-> index_head,
         ident |-> ident,
         sep |-> style.sep, rdiv_cnt |-> style.rdiv_cnt,
         is_partp |-> style.is_partp, border |-> style.border,
         lsh |-> style.lsh, hpat |-> style.hpat, hcpat |-> style.hcpat,
         vpat |-> style.vpat, vcpat |-> style.vcpat, spat |-> style.spat,
         cpat_alon |-> style.cpat_alon]

max_col(self) == Len(self.header)

Returned(self) == [self |-> self, raised |-> ""]
Raised(self, e) == [self |-> self, raised |-> e]

(* the first position of 0..n-1 at which a loop body fails, n if none does *)
FirstFail(n, fails) ==
    IF \E i \in 0 .. n - 1 : fails[i]
    THEN CHOOSE i \in 0 .. n - 1 : fails[i] /\ \A j \in 0 .. i - 1 : ~fails[j]
    ELSE n

----------------------------------------------------------------------------
(* The Border objects of the cells.  ident has the shape of self._attr and
   holds for each cell a name of the object its border attribute refers to, 0
   for None: two cells hold the same name exactly when they refer to the same
   object.  The names are the objects numbered from 1 in the order the cells
   first refer to them, row by row. *)

Names(m) == UNION {{m[r][c] : c \in 1 .. Len(m[r])} : r \in 1 .. Len(m)} \ {0}

(* a name no cell holds, for an object just made *)
FreshName(m) == 1 + (CHOOSE v \in Names(m) \cup {0} : \A w \in Names(m) : w <= v)

(* the names of a row numbered anew, the objects in seen having been met in
   the rows before it; acc is the part of the row already numbered *)
RECURSIVE NameRow(_, _, _)
NameRow(row, seen, acc) ==
    IF Len(acc) = Len(row) THEN [row |-> acc, seen |-> seen]
    ELSE IF row[Len(acc) + 1] = 0 THEN NameRow(row, seen, Append(acc, 0))
    ELSE IF \E i \in 1 .. Len(seen) : seen[i] = row[Len(acc) + 1]
    THEN NameRow(row, seen,
                 Append(acc, CHOOSE i \in 1 .. Len(seen) : seen[i] = row[Len(acc) + 1]))
    ELSE NameRow(row, Append(seen, row[Len(acc) + 1]), Append(acc, Len(seen) + 1))

RECURSIVE NameRows(_, _, _)
NameRows(m, seen, acc) ==
    IF Len(acc) = Len(m) THEN acc
    ELSE NameRows(m, NameRow(m[Len(acc) + 1], seen, <<>>).seen,
                  Append(acc, NameRow(m[Len(acc) + 1], seen, <<>>).row))

Named(m) == NameRows(m, <<>>, <<>>)

----------------------------------------------------------------------------
(* Structural mutations *)

(* SimpleTable.add_row.  align is "NONE" or an alignment; is_sep, fs and
   border are Nothing or Some(value). *)
add_row(self, key, title, data, init, loc, align, is_sep, fs, border) ==
    LET ridr == IF loc.t = "none" THEN Ok(self.max_row) ELSE IdOf(self.index, loc)
    IN  IF ridr.raised # "" THEN Raised(self, ridr.raised)
        ELSE
        LET rid == ridr.v
            index1 == Insert(self.index, rid, HeadAttr(key, title))
            pos == InsertPos(rid, Len(self.attr))
            attr1 == Insert(self.attr, rid, <<>>)
            max_row1 == self.max_row + 1
            mc == max_col(self)
            \* the row "above" is read only for an attribute left to default
            reads == max_row1 # 1 /\ (align = "NONE" \/ ~is_sep.some
                                      \/ ~fs.some \/ ~border.some)
            prevOk == InRange(rid - 1, Len(attr1))
            prevPos == PyIdx(rid - 1, Len(attr1))
            prev == IF prevOk /\ prevPos # pos THEN attr1[prevPos + 1] ELSE <<>>
            \* the number of cells appended before self._attr[rid-1][i] fails
            n == IF reads THEN Min(Len(prev), mc) ELSE mc
            cell(i) ==
                IF max_row1 = 1
                THEN TableAttr(IF align # "NONE" THEN align ELSE "TL",
                               IF is_sep.some THEN is_sep.v ELSE FALSE,
                               IF fs.some THEN fs.v ELSE DefaultFs,
                               IF border.some THEN border.v ELSE DefaultBorder)
                ELSE TableAttr(IF align # "NONE" THEN align ELSE prev[i].align,
                               IF is_sep.some THEN is_sep.v ELSE prev[i].is_sep,
                               IF fs.some THEN fs.v ELSE prev[i].fs,
                               IF border.some THEN border.v ELSE prev[i].border)
            row == [i \in 1 .. n |-> IF i <= Len(data) THEN data[i] ELSE init]
            arow == [i \in 1 .. n |-> cell(i)]
            \* the border given is the object of every cell of the row; a
            \* border left to default is Border() or a copy, one for each cell
            irow == [i \in 1 .. n |->
                        IF border.some THEN FreshName(self.ident)
                        ELSE IF max_row1 # 1 /\ prev[i].border = NoneBorder THEN 0
                        ELSE FreshName(self.ident) + i]
            self1 == [self EXCEPT !.header = self.header,
                      !.index = index1,
                      !.table = Insert(self.table, rid, row),
                      !.attr = Insert(self.attr, rid, arow),
                      !.ident = Insert(self.ident, rid, irow),
                      !.max_row = max_row1]
        IN  IF n < mc THEN Raised(self1, "IndexError") ELSE Returned(self1)

(* SimpleTable.add_col.  border is Nothing (the default None) or Some(Border). *)
add_col(self, key, title, data, init, loc, align, is_sep, fs, border) ==
    LET cidr == IF loc.t = "none" THEN Ok(max_col(self)) ELSE IdOf(self.header, loc)
    IN  IF cidr.raised # "" THEN Raised(self, cidr.raised)
        ELSE
        LET cid == cidr.v
            value(i) == IF i <= Len(data) THEN data[i] ELSE init
            new == TableAttr(align, is_sep, fs,
                             IF border.some THEN border.v ELSE NoneBorder)
        IN  Returned([self EXCEPT !.header = Insert(self.header, cid, HeadAttr(key, title)),
                      !.index = self.index,
                      !.table = [i \in 1 .. self.max_row |->
                                    Insert(self.table[i], cid, value(i))],
                      !.attr = [i \in 1 .. self.max_row |->
                                    Insert(self.attr[i], cid, new)],
                      !.ident = [i \in 1 .. self.max_row |->
                                    Insert(self.ident[i], cid,
                                           IF border.some THEN FreshName(self.ident) ELSE 0)],
                      !.max_row = self.max_row])

(* SimpleTable.swap_row *)
swap_row(self, index1, index2) ==
    LET r1 == IdOf(self.index, index1)
        r2 == IdOf(self.index, index2)
    IN  IF r1.raised # "" THEN Raised(self, r1.raised)
        ELSE IF r2.raised # "" THEN Raised(self, r2.raised)
        ELSE IF ~InRange(r1.v, Len(self.index)) \/ ~InRange(r2.v, Len(self.index))
        THEN Raised(self, "IndexError")
        ELSE Returned([self EXCEPT !.header = self.header,
                       !.index = Swap(self.index, r1.v, r2.v),
                       !.table = Swap(self.table, r1.v, r2.v),
                       !.attr = Swap(self.attr, r1.v, r2.v),
                       !.ident = Swap(self.ident, r1.v, r2.v),
                       !.max_row = self.max_row])

(* SimpleTable.swap_col *)
swap_col(self, index1, index2) ==
    LET c1 == IdOf(self.header, index1)
        c2 == IdOf(self.header, index2)
    IN  IF c1.raised # "" THEN Raised(self, c1.raised)
        ELSE IF c2.raised # "" THEN Raised(self, c2.raised)
        ELSE IF ~InRange(c1.v, Len(self.header)) \/ ~InRange(c2.v, Len(self.header))
        THEN Raised(self, "IndexError")
        ELSE
        LET Fails(i) == ~InRange(c1.v, Len(self.table[i + 1]))
                        \/ ~InRange(c2.v, Len(self.table[i + 1]))
            f == FirstFail(self.max_row, [i \in 0 .. self.max_row - 1 |-> Fails(i)])
            self1 == [self EXCEPT !.header = Swap(self.header, c1.v, c2.v),
                      !.index = self.index,
                      !.table = [i \in 1 .. self.max_row |->
                                    IF i <= f THEN Swap(self.table[i], c1.v, c2.v)
                                    ELSE self.table[i]],
                      !.attr = [i \in 1 .. self.max_row |->
                                    IF i <= f THEN Swap(self.attr[i], c1.v, c2.v)
                                    ELSE self.attr[i]],
                      !.ident = [i \in 1 .. self.max_row |->
                                    IF i <= f THEN Swap(self.ident[i], c1.v, c2.v)
                                    ELSE self.ident[i]],
                      !.max_row = self.max_row]
        IN  IF f < self.max_row THEN Raised(self1, "IndexError") ELSE Returned(self1)

(* SimpleTable.del_row *)
del_row(self, idx) ==
    IF self.max_row > 0
    THEN LET r == IdOf(self.index, idx)
         IN  IF r.raised # "" THEN Raised(self, r.raised)
             ELSE IF ~InRange(r.v, Len(self.index)) THEN Raised(self, "IndexError")
             ELSE Returned([self EXCEPT !.header = self.header,
                            !.index = Delete(self.index, r.v),
                            !.table = Delete(self.table, r.v),
                            !.attr = Delete(self.attr, r.v),
                            !.ident = Delete(self.ident, r.v),
                            !.max_row = self.max_row - 1])
    ELSE Returned(self)

(* the column del_col appends when it has deleted the last one *)
FallbackColumn == HeadAttr("title1", <<"T", "i", "t", "l", "e", "1">>)

(* SimpleTable.del_col *)
del_col(self, idx) ==
    LET c == IdOf(self.header, idx)
    IN  IF c.raised # "" THEN Raised(self, c.raised)
        ELSE IF ~InRange(c.v, Len(self.header)) THEN Raised(self, "IndexError")
        ELSE
        LET header1 == Delete(self.header, c.v)
            Fails(i) == ~InRange(c.v, Len(self.table[i + 1]))
            f == FirstFail(self.max_row, [i \in 0 .. self.max_row - 1 |-> Fails(i)])
            table1 == [i \in 1 .. self.max_row |->
                          IF i <= f THEN Delete(self.table[i], c.v)
                          ELSE self.table[i]]
            attr1 == [i \in 1 .. self.max_row |->
                          IF i <= f THEN Delete(self.attr[i], c.v)
                          ELSE self.attr[i]]
            ident1 == [i \in 1 .. self.max_row |->
                          IF i <= f THEN Delete(self.ident[i], c.v)
                          ELSE self.ident[i]]
        IN  IF f < self.max_row
            THEN Raised([self EXCEPT !.header = header1, !.index = self.index,
                         !.table = table1, !.attr = attr1, !.ident = ident1,
                         !.max_row = self.max_row], "IndexError")
            ELSE Returned([self EXCEPT !.header = IF Len(header1) = 0
                                      THEN <<FallbackColumn>> ELSE header1,
                           !.index = self.index,
                           !.table = table1, !.attr = attr1, !.ident = ident1,
                           !.max_row = self.max_row])

----------------------------------------------------------------------------
(* Reads by position, key or slice *)

Slice(start, stop) == [t |-> "slice", start |-> start, stop |-> stop]

(* list[st:ed]: both bounds are clamped to the list *)
PySlice(s, st, ed) ==
    SubSeq(s, InsertPos(st, Len(s)) + 1, InsertPos(ed, Len(s)))

(* the wrappers a read returns a list in *)
Index(array) == [class |-> "Index", array |-> array]
Array(array) == [class |-> "Array", array |-> array]
NoOutput == [class |-> "NoneType"]

(* _IndexLocation.__getitem__: the descriptor, or the list of descriptors *)
IndexLocation_getitem(head, idx) ==
    IF idx.t = "slice"
    THEN LET r == IndexLocation_get_index(head, idx, 2)
         IN  IF r.raised # "" THEN Err(r.raised)
             ELSE Ok(Index(PySlice(head, r.v.st, r.v.ed)))
    ELSE LET r == IndexLocation_get_index(head, idx, 1)
         IN  IF r.raised # "" THEN Err(r.raised)
             ELSE IF ~InRange(r.v, Len(head)) THEN Err("IndexError")
             ELSE Ok(At(head, r.v))

(* SimpleTable.__getitem__ for table[rows]: the row, or the list of rows, that
   a position, key or slice selects *)
getitem(self, idx) ==
    IF idx.t = "slice"
    THEN LET r == get_index(self.index, idx, 2)
         IN  IF r.raised # "" THEN Err(r.raised)
             ELSE Ok(Array(PySlice(self.table, r.v.st, r.v.ed)))
    ELSE LET r == get_index(self.index, idx, 1)
         IN  IF r.raised # "" THEN Err(r.raised)
             ELSE IF ~InRange(r.v, Len(self.table)) THEN Err("IndexError")
             ELSE Ok(Array(At(self.table, r.v)))

----------------------------------------------------------------------------
(* Writes by position, key, slice or pair of them *)

(* table[rs, cs] *)
Pair(rs, cs) == [t |-> "tuple", rs |-> rs, cs |-> cs]

(* the range of slice(st, ed).indices(n): the positions st .. ed - 1, both
   bounds clamped to the list *)
Indices(st, ed, n) ==
    [k \in 1 .. Max(InsertPos(ed, n) - InsertPos(st, n), 0) |-> InsertPos(st, n) + k - 1]

(* that[i], for i from 1 *)
ListItem(that, i) == IF i <= Len(that) THEN Ok(that[i]) ELSE Err("IndexError")

(* what one assignment self._table[r][c] = v raises on the grid tbl, st
   holding the row, the column and the value as they resolved: the value is
   read first, then the row, then the column *)
StoreFails(tbl, st) ==
    IF st.v.raised # "" THEN st.v.raised
    ELSE IF ~InRange(st.r, Len(tbl)) THEN "IndexError"
    ELSE IF st.c.raised # "" THEN st.c.raised
    ELSE IF ~InRange(st.c.v, Len(At(tbl, st.r))) THEN "IndexError"
    ELSE ""

(* the assignments in order, up to the first that raises *)
RECURSIVE Assign(_, _, _, _)
Assign(self, tbl, steps, k) ==
    IF k > Len(steps) THEN Returned([self EXCEPT !.table = tbl])
    ELSE IF StoreFails(tbl, steps[k]) # ""
    THEN Raised([self EXCEPT !.table = tbl], StoreFails(tbl, steps[k]))
    ELSE Assign(self,
                [tbl EXCEPT ![PyIdx(steps[k].r, Len(tbl)) + 1] =
                    [@ EXCEPT ![PyIdx(steps[k].c.v, Len(@)) + 1] = steps[k].v.v]],
                steps, k + 1)

(* the assignments of the rows R by the columns C (positions from 0), row
   by row, from the grid that *)
GridSteps(R, C, that) ==
    [k \in 1 .. Len(R) * Len(C) |->
        [r |-> R[((k - 1) \div Len(C)) + 1],
         c |-> Ok(C[((k - 1) % Len(C)) + 1]),
         v |-> IF ListItem(that, ((k - 1) \div Len(C)) + 1).raised # ""
               THEN Err("IndexError")
               ELSE ListItem(that[((k - 1) \div Len(C)) + 1], ((k - 1) % Len(C)) + 1)]]

(* SimpleTable.__setitem__, table[rs, cs] = that *)
setitem_pair(self, rs, cs, that) ==
    LET mr == self.max_row
        mc == max_col(self)
        rr == get_index(self.index, rs, IF rs.t = "slice" THEN 2 ELSE 1)
        cc == get_index(self.header, cs, IF cs.t = "slice" THEN 2 ELSE 1)
    IN  IF rr.raised # "" THEN Raised(self, rr.raised)
        ELSE IF rs.t = "slice"
        THEN LET R == Indices(rr.v.st, rr.v.ed, mr)
             IN  IF Len(R) = 0 THEN Returned(self)
                 ELSE IF cs.t = "slice"
                 THEN IF cc.raised # "" THEN Raised(self, cc.raised)
                      ELSE Assign(self, self.table,
                                  GridSteps(R, Indices(cc.v.st, cc.v.ed, mc), that), 1)
                 ELSE Assign(self, self.table,
                             [i \in 1 .. Len(R) |->
                                 [r |-> R[i], c |-> cc, v |-> ListItem(that, i)]], 1)
        ELSE IF cs.t = "slice"
        THEN IF cc.raised # "" THEN Raised(self, cc.raised)
             ELSE LET C == Indices(cc.v.st, cc.v.ed, mc)
                  IN  Assign(self, self.table,
                             [i \in 1 .. Len(C) |->
                                 [r |-> rr.v, c |-> Ok(C[i]), v |-> ListItem(that, i)]], 1)
        ELSE Assign(self, self.table, <<[r |-> rr.v, c |-> cc, v |-> Ok(that)]>>, 1)

(* SimpleTable.__setitem__: table[rows] = that for a position, a key or a
   slice of rows, table[rs, cs] = that for a pair *)
setitem(self, idx, that) ==
    LET mr == self.max_row
        mc == max_col(self)
        rr == get_index(self.index, idx, IF idx.t = "slice" THEN 2 ELSE 1)
    IN  IF idx.t = "tuple" THEN setitem_pair(self, idx.rs, idx.cs, that)
        ELSE IF rr.raised # "" THEN Raised(self, rr.raised)
        ELSE IF idx.t = "slice"
        THEN Assign(self, self.table,
                    GridSteps(Indices(rr.v.st, rr.v.ed, mr), [c \in 1 .. mc |-> c - 1], that), 1)
        ELSE Assign(self, self.table,
                    [c \in 1 .. mc |->
                        [r |-> rr.v, c |-> Ok(c - 1), v |-> ListItem(that, c)]], 1)

----------------------------------------------------------------------------
(* Attribute setters: an argument is Nothing (no change) or Some(value) *)

(* SimpleTable.set_head_attr *)
set_head_attr(self, width, align, is_sep, border, lofs, rofs) ==
    Returned([self EXCEPT !.header =
        [i \in 1 .. Len(self.header) |->
            [key |-> self.header[i].key,
             title |-> self.header[i].title,
             width |-> IF width.some THEN width.v ELSE self.header[i].width,
             align |-> IF align.some THEN align.v ELSE self.header[i].align,
             is_sep |-> IF is_sep.some THEN is_sep.v ELSE self.header[i].is_sep,
             border |-> IF border.some THEN border.v ELSE self.header[i].border,
             lofs |-> IF lofs.some THEN lofs.v ELSE self.header[i].lofs,
             rofs |-> IF rofs.some THEN rofs.v ELSE self.header[i].rofs]]])

(* SimpleTable.set_index_attr: width, lofs and rofs go to the descriptor of
   the index column, the other attributes to every row descriptor *)
set_index_attr(self, width, align, is_sep, border, lofs, rofs) ==
    Returned([self EXCEPT
        !.index_head = [@ EXCEPT
            !.width = IF width.some THEN width.v ELSE @,
            !.lofs = IF lofs.some THEN lofs.v ELSE @,
            !.rofs = IF rofs.some THEN rofs.v ELSE @],
        !.index = [i \in 1 .. Len(self.index) |->
            [self.index[i] EXCEPT
                !.align = IF align.some THEN align.v ELSE @,
                !.is_sep = IF is_sep.some THEN is_sep.v ELSE @,
                !.border = IF border.some THEN border.v ELSE @]]])

(* SimpleTable.set_row_attr: the attributes go to the cells of row index, one
   cell for each column descriptor, as far as the row has cells; index is used
   as a list position only *)
set_row_attr(self, idx, align, is_sep, fs, border) ==
    LET writes == align.some \/ is_sep.some \/ fs.some \/ border.some
    IN  IF ~writes \/ max_col(self) = 0 THEN Returned(self)
        ELSE IF idx.t # "int" THEN Raised(self, "TypeError")
        ELSE IF ~InRange(idx.i, Len(self.attr)) THEN Raised(self, "IndexError")
        ELSE
        LET r == PyIdx(idx.i, Len(self.attr)) + 1
            n == Min(max_col(self), Len(self.attr[r]))
            row1 == [i \in 1 .. Len(self.attr[r]) |->
                        IF i <= n
                        THEN TableAttr(
                                IF align.some THEN align.v ELSE self.attr[r][i].align,
                                IF is_sep.some THEN is_sep.v ELSE self.attr[r][i].is_sep,
                                IF fs.some THEN fs.v ELSE self.attr[r][i].fs,
                                IF border.some THEN border.v ELSE self.attr[r][i].border)
                        ELSE self.attr[r][i]]
            \* copy.copy(border), one for each cell
            irow1 == [i \in 1 .. Len(self.attr[r]) |->
                        IF i <= n /\ border.some THEN FreshName(self.ident) + i
                        ELSE self.ident[r][i]]
            self1 == [self EXCEPT !.attr = [self.attr EXCEPT ![r] = row1],
                                  !.ident = [self.ident EXCEPT ![r] = irow1]]
        IN  IF n < max_col(self) THEN Raised(self1, "IndexError")
            ELSE Returned(self1)

(* SimpleTable.set_col_attr: the width goes to the column's descriptor, the
   other attributes to the column's cell of every row, row by row *)
set_col_attr(self, idx, width, align, is_sep, fs, border) ==
    LET c == IdOf(self.header, idx)
        writes == align.some \/ is_sep.some \/ fs.some \/ border.some
    IN  IF c.raised # "" THEN Raised(self, c.raised)
        ELSE IF width.some /\ ~InRange(c.v, Len(self.header))
        THEN Raised(self, "IndexError")
        ELSE
        LET header1 == IF width.some
                       THEN [self.header EXCEPT
                                ![PyIdx(c.v, Len(self.header)) + 1].width = width.v]
                       ELSE self.header
            Fails(i) == writes /\ ~InRange(c.v, Len(self.attr[i + 1]))
            f == FirstFail(self.max_row, [i \in 0 .. self.max_row - 1 |-> Fails(i)])
            set(a) == TableAttr(IF align.some THEN align.v ELSE a.align,
                                IF is_sep.some THEN is_sep.v ELSE a.is_sep,
                                IF fs.some THEN fs.v ELSE a.fs,
                                IF border.some THEN border.v ELSE a.border)
            self1 == [self EXCEPT
                        !.header = header1,
                        !.attr = [i \in 1 .. Len(self.attr) |->
                                    IF i <= f /\ i <= self.max_row /\ writes
                                    THEN [self.attr[i] EXCEPT
                                            ![PyIdx(c.v, Len(self.attr[i])) + 1] =
                                                set(self.attr[i][PyIdx(c.v, Len(self.attr[i])) + 1])]
                                    ELSE self.attr[i]],
                        !.ident = [i \in 1 .. Len(self.attr) |->
                                    IF i <= f /\ i <= self.max_row /\ border.some
                                    THEN [self.ident[i] EXCEPT
                                            ![PyIdx(c.v, Len(self.attr[i])) + 1] =
                                                FreshName(self.ident) + i]
                                    ELSE self.ident[i]]]
        IN  IF f < self.max_row THEN Raised(self1, "IndexError") ELSE Returned(self1)

(* table.attr[rs, cs].border.<edge> = v: _AttrLocation.__getitem__ returns
   the cell's TableAttr itself, and the flag is set on the Border object the
   cell refers to, so on the border of every cell that refers to it *)
set_edge(self, rs, cs, edge, v) ==
    LET rr == get_index(self.index, rs, 1)
        cc == get_index(self.header, cs, 1)
    IN  IF rr.raised # "" THEN Raised(self, rr.raised)
        ELSE IF ~InRange(rr.v, Len(self.attr)) THEN Raised(self, "IndexError")
        ELSE IF cc.raised # "" THEN Raised(self, cc.raised)
        ELSE IF ~InRange(cc.v, Len(At(self.attr, rr.v))) THEN Raised(self, "IndexError")
        ELSE IF At(At(self.attr, rr.v), cc.v).border = NoneBorder
        THEN Raised(self, "AttributeError")
        ELSE Returned([self EXCEPT !.attr =
                [r \in 1 .. Len(self.attr) |->
                    [c \in 1 .. Len(self.attr[r]) |->
                        IF self.ident[r][c] = At(At(self.ident, rr.v), cc.v)
                        THEN [self.attr[r][c] EXCEPT !.border = [@ EXCEPT ![edge] = v]]
                        ELSE self.attr[r][c]]]])

----------------------------------------------------------------------------
(* Strings *)

Rep(c, n) == [i \in 1 .. n |-> c]

(* str.split(sep), for a separator of one character *)
RECURSIVE split(_, _)
split(str, sep) ==
    IF \E p \in 1 .. Len(str) : str[p] = sep
    THEN LET p == CHOOSE p \in 1 .. Len(str) :
                     str[p] = sep /\ \A q \in 1 .. p - 1 : str[q] # sep
         IN  <<SubSeq(str, 1, p - 1)>> \o split(SubSeq(str, p + 1, Len(str)), sep)
    ELSE <<str>>

(* fs.format(value): every "{}" of the format string is replaced by str(value) *)
RECURSIVE format(_, _)
format(fs, value) ==
    IF fs = <<>> THEN <<>>
    ELSE (IF Head(fs) = "{}" THEN value ELSE <<Head(fs)>>) \o format(Tail(fs), value)

(* max([len(x) for x in toks]) *)
RECURSIVE MaxLen(_)
MaxLen(toks) ==
    IF Len(toks) = 1 THEN Len(toks[1])
    ELSE Max(Len(toks[1]), MaxLen(Tail(toks)))

ljust(str, width) ==
    IF Len(str) >= width THEN str ELSE str \o Rep(" ", width - Len(str))

rjust(str, width) ==
    IF Len(str) >= width THEN str ELSE Rep(" ", width - Len(str)) \o str

center(str, width) ==
    IF Len(str) >= width THEN str
    ELSE LET marg == width - Len(str)
             left == (marg \div 2) + (IF marg % 2 = 1 /\ width % 2 = 1 THEN 1 ELSE 0)
         IN  Rep(" ", left) \o str \o Rep(" ", marg - left)

(* the match on the alignment's horizontal part *)
justify(align, str, width) ==
    IF align \in {"TL", "CL", "BL"} THEN ljust(str, width)
    ELSE IF align \in {"TC", "CC", "BC"} THEN center(str, width)
    ELSE rjust(str, width)

(* every cell anchored at the top of its block *)
row_start_top(align, max_cnt, cnt) == 0

(* the match on the alignment's vertical part: the first physical line of a
   cell of cnt segments in a block of max_cnt lines *)
row_start(align, max_cnt, cnt) ==
    IF align \in {"TL", "TC", "TR"} THEN 0
    ELSE IF align \in {"CL", "CC", "CR"} THEN (max_cnt - cnt) \div 2
    ELSE max_cnt - cnt

----------------------------------------------------------------------------
(* Widths *)

(* the segments of a cell's value as such, its format string not applied *)
value_segments_unformatted(sep, a, value) ==
    IF a.is_sep THEN split(value, sep) ELSE <<value>>

(* the segments of a title, of a cell *)
head_segments(sep, cell) ==
    IF cell.is_sep THEN split(cell.title, sep) ELSE <<cell.title>>

value_segments(sep, a, value) ==
    IF a.is_sep THEN split(format(a.fs, value), sep) ELSE <<format(a.fs, value)>>

(* the width a column starts with in print: the longest segment of its
   title, or the declared width when that is larger *)
head_width(cell, toks) ==
    IF MaxLen(toks) > cell.width THEN MaxLen(toks) ELSE cell.width

(* a width that every visible cell may grow *)
value_width_growing(cell, size, toks) ==
    IF MaxLen(toks) > size THEN MaxLen(toks) ELSE size

(* the width of a column after one more visible cell in print: only a
   column of width 0 grows to the cell's longest segment *)
value_width(cell, size, toks) ==
    IF cell.width = 0
    THEN IF MaxLen(toks) > size THEN MaxLen(toks) ELSE size
    ELSE size

(* SimpleTable.get_col_width *)
get_col_width(self, idx) ==
    LET c == IdOf(self.header, idx)
    IN  IF c.raised # "" THEN Err(c.raised)
        ELSE IF ~InRange(c.v, Len(self.header)) THEN Err("IndexError")
        ELSE
        LET h == At(self.header, c.v)
            size0 == Max(h.width, MaxLen(head_segments(self.sep, h)))
            Fails(r) == ~InRange(c.v, Len(self.attr[r + 1]))
            RECURSIVE grow(_, _)
            grow(r, size) ==
                IF r >= self.max_row THEN size
                ELSE grow(r + 1,
                          Max(size, MaxLen(value_segments(self.sep,
                                                          At(self.attr[r + 1], c.v),
                                                          At(self.table[r + 1], c.v)))))
        IN  IF h.width = 0
            THEN IF \E r \in 0 .. self.max_row - 1 : Fails(r) THEN Err("IndexError")
                 ELSE Ok(grow(0, size0))
            ELSE Ok(size0)

----------------------------------------------------------------------------
(* Rendering *)

Line(site, row, text) == [site |-> site, row |-> row, text |-> text]

Printed(lines, csize_list) ==
    [raised |-> "", lines |-> lines, csize_list |-> csize_list]
Aborted(e, lines, csize_list) ==
    [raised |-> e, lines |-> lines, csize_list |-> csize_list]

(* a row counter that a divider restarts at 0 *)
next_row_cnt_from_zero(due, row_cnt) == IF due THEN 0 ELSE row_cnt + 1

(* a closing that writes one divider whatever the number of visible rows *)
closing_lines_once(nr, str) == <<Line(1367, -1, str)>>

(* the row counter of print's row loop after a row: a divider restarts it at
   1, the row that follows the divider *)
next_row_cnt(due, row_cnt) == IF due THEN 1 ELSE row_cnt + 1

(* a bottom divider printed twice whatever the number of rows *)
closing_lines_doubled(nr, str) == <<Line(1367, -1, str), Line(1367, -1, str)>>

(* what print writes last when the bottom border is enabled: the same
   divider twice for no visible row, else the bottom divider *)
closing_lines(nr, str) ==
    IF nr = 0 THEN <<Line(1357, -1, str), Line(1358, -1, str)>>
    ELSE <<Line(1367, -1, str)>>

(* a divider whose corners look at the row below it only *)
div_gen_below_only(self, wlist, alist, hlist, cpat, dpat, palist, is_bottom) ==
    LET n == Len(wlist)
        above == palist.some /\ Len(palist.v) > 0
        is_cor(i) ==
            \/ self.cpat_alon
            \/ alist[i].border.left
            \/ (i > 1 /\ alist[i - 1].border.right)
        is_bor(i) ==
            IF is_bottom THEN alist[i].border.bottom
            ELSE alist[i].border.top \/ (above /\ palist.v[i].border.bottom)
        piece(i) ==
            (IF i > 1 \/ self.border.left
             THEN <<IF is_cor(i) THEN cpat ELSE " ">> ELSE <<>>)
            \o Rep(IF is_bor(i) THEN dpat ELSE " ",
                   wlist[i] + hlist[i].lofs + hlist[i].rofs)
        RECURSIVE pieces(_)
        pieces(i) == IF i > n THEN <<>> ELSE piece(i) \o pieces(i + 1)
        last_cor ==
            \/ self.cpat_alon
            \/ alist[n].border.right
    IN  IF \E i \in 1 .. n : alist[i].border = NoneBorder
        THEN Err("AttributeError")
        ELSE IF above /\ ~is_bottom /\ \E i \in 1 .. n : palist.v[i].border = NoneBorder
        THEN Err("AttributeError")
        ELSE IF n = 0 THEN Err("IndexError")
        ELSE IF above /\ palist.v[n].border = NoneBorder THEN Err("AttributeError")
        ELSE Ok(Rep(" ", self.lsh) \o pieces(1)
                \o (IF self.border.right
                    THEN <<IF last_cor THEN cpat ELSE " ">> ELSE <<>>))

(* SimpleTable._div_gen; palist is Nothing or Some(list) *)
div_gen(self, wlist, alist, hlist, cpat, dpat, palist, is_bottom) ==
    LET n == Len(wlist)
        above == palist.some /\ Len(palist.v) > 0
        is_cor(i) ==
            \/ self.cpat_alon
            \/ alist[i].border.left
            \/ (i > 1 /\ alist[i - 1].border.right)
            \/ (~is_bottom /\ above /\ palist.v[i].border.left)
            \/ (~is_bottom /\ above /\ i > 1 /\ palist.v[i - 1].border.right)
        is_bor(i) ==
            IF is_bottom THEN alist[i].border.bottom
            ELSE alist[i].border.top \/ (above /\ palist.v[i].border.bottom)
        piece(i) ==
            (IF i > 1 \/ self.border.left
             THEN <<IF is_cor(i) THEN cpat ELSE " ">> ELSE <<>>)
            \o Rep(IF is_bor(i) THEN dpat ELSE " ",
                   wlist[i] + hlist[i].lofs + hlist[i].rofs)
        RECURSIVE pieces(_)
        pieces(i) == IF i > n THEN <<>> ELSE piece(i) \o pieces(i + 1)
        last_cor ==
            \/ self.cpat_alon
            \/ alist[n].border.right
            \/ (above /\ palist.v[n].border.right)
    IN  IF \E i \in 1 .. n : alist[i].border = NoneBorder
        THEN Err("AttributeError")
        ELSE IF above /\ ~is_bottom /\ \E i \in 1 .. n : palist.v[i].border = NoneBorder
        THEN Err("AttributeError")
        ELSE IF n = 0 THEN Err("IndexError")
        ELSE IF above /\ palist.v[n].border = NoneBorder THEN Err("AttributeError")
        ELSE Ok(Rep(" ", self.lsh) \o pieces(1)
                \o (IF self.border.right
                    THEN <<IF last_cor THEN cpat ELSE " ">> ELSE <<>>))

(* a selection of print: Nothing (all), or Some of a list of positions
   (t = "int") or of keys (t = "str") *)
selection(head, n, sel) ==
    IF ~sel.some THEN Ok([i \in 1 .. n |-> i - 1])
    ELSE IF Len(sel.v.list) = 0 THEN Err("IndexError")
    ELSE IF sel.v.t = "int" THEN Ok(sel.v.list)
    ELSE IF \E i \in 1 .. Len(sel.v.list) : DictGet(id(head), sel.v.list[i]).raised # ""
         THEN Err("KeyError")
         ELSE Ok([i \in 1 .. Len(sel.v.list) |-> DictGet(id(head), sel.v.list[i]).v])

(* SimpleTable.print.  Each line carries the line of the source that
   printed it and, for the lines of the row loop, the position j of the row
   in the selection; a line's text is a tuple of characters.  The stages of
   print follow, each taking what the stages before it computed. *)

(* max(cnt), for a non-empty list *)
MaxOf(cnt) ==
    CHOOSE m \in {cnt[i] : i \in 1 .. Len(cnt)} : \A i \in 1 .. Len(cnt) : cnt[i] <= m

(* "get head data": the segments of every visible title *)
head_data(self, head) ==
    [i \in 1 .. Len(head) |-> head_segments(self.sep, head[i])]

(* "get value data": the segments of every visible cell *)
value_data(self, cell, value) ==
    [j \in 1 .. Len(cell) |->
        [i \in 1 .. Len(cell[j]) |-> value_segments(self.sep, cell[j][i], value[j][i])]]

(* is_force_partp: some visible cell has more than one segment *)
force_partp(vdata) ==
    \E j \in 1 .. Len(vdata) : \E i \in 1 .. Len(vdata[j]) : Len(vdata[j][i]) > 1

(* csize_list[i], as the loop over the visible rows leaves it *)
RECURSIVE grow(_, _, _, _, _)
grow(cell, vdata, i, j, size) ==
    IF j > Len(vdata) THEN size
    ELSE grow(cell, vdata, i, j + 1, value_width(cell, size, vdata[j][i]))

column_sizes(head, hdata, vdata) ==
    [i \in 1 .. Len(head) |-> grow(head[i], vdata, i, 1, head_width(head[i], hdata[i]))]

(* row_st: where each cell's segments start in a block *)
row_starts(alist, toks) ==
    LET cnt == [i \in 1 .. Len(toks) |-> Len(toks[i])]
    IN  [i \in 1 .. Len(toks) |-> row_start(alist[i].align, MaxOf(cnt), cnt[i])]

(* the separator written before column i (from 1), and after the last *)
left_edge(self, i, is_sep) ==
    IF i > 1 \/ self.border.left THEN <<IF is_sep THEN self.spat ELSE " ">> ELSE <<>>

(* an edge that writes nothing where no separator is declared *)
right_edge_omitting(self, is_sep) ==
    IF self.border.right /\ is_sep THEN <<self.spat>> ELSE <<>>

right_edge(self, is_sep) ==
    IF self.border.right THEN <<IF is_sep THEN self.spat ELSE " ">> ELSE <<>>

(* one title on physical line r of the header block *)
head_cell(h, toks, st, width, r) ==
    Rep(" ", h.lofs)
    \o (IF st <= r /\ r < st + Len(toks)
        THEN justify(h.align, toks[r - st + 1], width)
        ELSE Rep(" ", width))
    \o Rep(" ", h.rofs)

RECURSIVE head_cells(_, _, _, _, _, _, _)
head_cells(self, head, hdata, row_st, csize_list, r, i) ==
    IF i > Len(head) THEN <<>>
    ELSE left_edge(self, i, head[i].border.left \/ (i > 1 /\ head[i - 1].border.right))
         \o head_cell(head[i], hdata[i], row_st[i], csize_list[i], r)
         \o head_cells(self, head, hdata, row_st, csize_list, r, i + 1)

(* "header print" *)
head_lines(self, head, hdata, csize_list, row_st) ==
    [r \in 1 .. MaxOf([i \in 1 .. Len(hdata) |-> Len(hdata[i])]) |->
        Line(1250, -1,
             Rep(" ", self.lsh)
             \o head_cells(self, head, hdata, row_st, csize_list, r - 1, 1)
             \o right_edge(self, head[Len(head)].border.right))]

(* acc_col_sz after column i of physical line r2 *)
RECURSIVE acc_col_sz(_, _, _, _, _, _, _)
acc_col_sz(self, head, toks, row_st, csize_list, r2, i) ==
    IF i = 0 THEN 0
    ELSE acc_col_sz(self, head, toks, row_st, csize_list, r2, i - 1)
         + (IF row_st[i] <= r2 /\ r2 < row_st[i] + Len(toks[i])
            THEN csize_list[i] + head[i].lofs + head[i].rofs
                 + (IF self.border.left THEN 1 ELSE 0)
            ELSE 0)

(* a cell that cuts a long segment to the width and marks nothing *)
data_cell_cut(h, a, toks, st, width, r2, partp, acc) ==
    IF st <= r2 /\ r2 < st + Len(toks)
    THEN IF Len(toks[r2 - st + 1]) > width
         THEN IF partp
              THEN Rep(" ", h.lofs)
                   \o SubSeq(justify(a.align, toks[r2 - st + 1], width), 1, width)
                   \o Rep(" ", h.rofs)
              ELSE Rep(" ", h.lofs) \o justify(a.align, toks[r2 - st + 1], width)
                   \o <<"\n">> \o Rep(" ", acc)
         ELSE Rep(" ", h.lofs) \o justify(a.align, toks[r2 - st + 1], width)
              \o Rep(" ", h.rofs)
    ELSE Rep(" ", h.lofs) \o Rep(" ", width) \o Rep(" ", h.rofs)

(* a cell that treats a segment as long as the width as too long *)
data_cell_eager(h, a, toks, st, width, r2, partp, acc) ==
    IF st <= r2 /\ r2 < st + Len(toks)
    THEN IF Len(toks[r2 - st + 1]) >= width
         THEN IF partp
              THEN Rep(" ", h.lofs)
                   \o SubSeq(justify(a.align, toks[r2 - st + 1], width), 1, width - 1)
                   \o <<">">> \o Rep(" ", h.rofs)
              ELSE Rep(" ", h.lofs) \o justify(a.align, toks[r2 - st + 1], width)
                   \o <<"\n">> \o Rep(" ", acc)
         ELSE Rep(" ", h.lofs) \o justify(a.align, toks[r2 - st + 1], width)
              \o Rep(" ", h.rofs)
    ELSE Rep(" ", h.lofs) \o Rep(" ", width) \o Rep(" ", h.rofs)

(* a cell that breaks a long segment after width characters and goes on
   under the start of its column *)
data_cell_split(h, a, toks, st, width, r2, partp, acc) ==
    IF st <= r2 /\ r2 < st + Len(toks)
    THEN IF Len(toks[r2 - st + 1]) > width
         THEN IF partp
              THEN Rep(" ", h.lofs)
                   \o SubSeq(justify(a.align, toks[r2 - st + 1], width), 1, width - 1)
                   \o <<">">> \o Rep(" ", h.rofs)
              ELSE Rep(" ", h.lofs) \o SubSeq(toks[r2 - st + 1], 1, width)
                   \o <<"\n">> \o Rep(" ", acc - width - h.rofs)
                   \o SubSeq(toks[r2 - st + 1], width + 1, Len(toks[r2 - st + 1]))
         ELSE Rep(" ", h.lofs) \o justify(a.align, toks[r2 - st + 1], width)
              \o Rep(" ", h.rofs)
    ELSE Rep(" ", h.lofs) \o Rep(" ", width) \o Rep(" ", h.rofs)

(* one cell on physical line r2 of its row's block *)
data_cell(h, a, toks, st, width, r2, partp, acc) ==
    IF st <= r2 /\ r2 < st + Len(toks)
    THEN IF Len(toks[r2 - st + 1]) > width
         THEN IF partp
              THEN Rep(" ", h.lofs)
                   \o SubSeq(justify(a.align, toks[r2 - st + 1], width), 1, width - 1)
                   \o <<">">> \o Rep(" ", h.rofs)
              ELSE Rep(" ", h.lofs) \o justify(a.align, toks[r2 - st + 1], width)
                   \o <<"\n">> \o Rep(" ", acc)
         ELSE Rep(" ", h.lofs) \o justify(a.align, toks[r2 - st + 1], width)
              \o Rep(" ", h.rofs)
    ELSE Rep(" ", h.lofs) \o Rep(" ", width) \o Rep(" ", h.rofs)

RECURSIVE data_cells(_, _, _, _, _, _, _, _, _)
data_cells(self, head, alist, toks, row_st, csize_list, partp, r2, i) ==
    IF i > Len(head) THEN <<>>
    ELSE left_edge(self, i, IF i > 1 THEN alist[i - 1].border.right
                                     ELSE alist[i].border.left)
         \o data_cell(head[i], alist[i], toks[i], row_st[i], csize_list[i], r2, partp,
                      acc_col_sz(self, head, toks, row_st, csize_list, r2, i))
         \o data_cells(self, head, alist, toks, row_st, csize_list, partp, r2, i + 1)

(* the physical lines of the row at position j (from 1) of the selection *)
data_lines(self, head, alist, toks, csize_list, partp, j, row_st) ==
    [r \in 1 .. MaxOf([i \in 1 .. Len(toks) |-> Len(toks[i])]) |->
        Line(1345, j - 1,
             Rep(" ", self.lsh)
             \o data_cells(self, head, alist, toks, row_st, csize_list, partp, r - 1, 1)
             \o right_edge(self, alist[Len(alist)].border.right))]

(* "table print": the row loop from position j on, row_cnt rows after the
   last divider, lines printed so far *)
RECURSIVE rows(_, _, _, _, _, _, _, _, _)
RECURSIVE row_block(_, _, _, _, _, _, _, _, _, _, _, _)
rows(self, head, cell, vdata, csize_list, partp, j, row_cnt, lines) ==
    IF j > Len(cell) THEN Printed(lines, csize_list)
    ELSE row_block(self, head, cell, vdata, csize_list, partp, j, row_cnt, lines,
                   ~self.rdiv_cnt.inf /\ row_cnt = self.rdiv_cnt.n,
                   div_gen(self, csize_list, cell[j], head, self.hcpat, self.hpat,
                           Some(head), FALSE),
                   div_gen(self, csize_list, cell[j], head, self.vcpat, self.vpat,
                           Some(cell[IF j = 1 THEN Len(cell) ELSE j - 1]), FALSE))

(* one pass of the row loop: the header divider before the first row, the
   row divider when it is due, the row's lines *)
row_block(self, head, cell, vdata, csize_list, partp, j, row_cnt, lines, due, hdiv, rdiv) ==
    LET lines1 == IF j = 1 THEN lines \o <<Line(1264, j - 1, hdiv.v)>> ELSE lines
        lines2 == IF due THEN lines1 \o <<Line(1275, j - 1, rdiv.v)>> ELSE lines1
    IN  IF j = 1 /\ hdiv.raised # "" THEN Aborted(hdiv.raised, lines, csize_list)
        ELSE IF due /\ rdiv.raised # "" THEN Aborted(rdiv.raised, lines1, csize_list)
        ELSE IF \E i \in 1 .. Len(head) : cell[j][i].align = "NONE"
        THEN Aborted("SyntaxError", lines2, csize_list)
        ELSE IF \E i \in 1 .. Len(head) : cell[j][i].border = NoneBorder
        THEN Aborted("AttributeError", lines2, csize_list)
        ELSE rows(self, head, cell, vdata, csize_list, partp, j + 1,
                  next_row_cnt(due, row_cnt),
                  lines2 \o data_lines(self, head, cell[j], vdata[j], csize_list,
                                       partp, j, row_starts(cell[j], vdata[j])))

(* the closing divider, after the row loop *)
print_close(self, head, cell, csize_list, body, last) ==
    IF body.raised # "" THEN body
    ELSE IF ~self.border.bottom THEN body
    ELSE IF last.raised # "" THEN Aborted(last.raised, body.lines, csize_list)
    ELSE Printed(body.lines \o closing_lines(Len(cell), last.v), csize_list)

(* print from the top border on, the widths known *)
print_lines(self, head, cell, hdata, vdata, csize_list, top) ==
    LET top_lines == IF self.border.top THEN <<Line(1206, -1, top.v)>> ELSE <<>>
    IN  IF Len(head) = 0
        THEN Aborted(IF self.border.top THEN "IndexError" ELSE "ValueError", <<>>, <<>>)
        ELSE IF self.border.top /\ top.raised # ""
        THEN Aborted(top.raised, <<>>, csize_list)
        ELSE IF \E i \in 1 .. Len(head) : head[i].align = "NONE"
        THEN Aborted("SyntaxError", top_lines, csize_list)
        ELSE print_close(self, head, cell, csize_list,
                 rows(self, head, cell, vdata, csize_list,
                      self.is_partp \/ force_partp(vdata), 1, 0,
                      top_lines \o head_lines(self, head, hdata, csize_list,
                                              row_starts(head, hdata))),
                 IF Len(cell) = 0
                 THEN div_gen(self, csize_list, head, head, self.hcpat, self.hpat,
                              Nothing, FALSE)
                 ELSE div_gen(self, csize_list, cell[Len(cell)], head, self.hcpat,
                              self.hpat, Nothing, TRUE))

(* print once the titles' and the cells' segments are known *)
print_data(self, head, cell, hdata, vdata) ==
    print_lines(self, head, cell, hdata, vdata, column_sizes(head, hdata, vdata),
                div_gen(self, column_sizes(head, hdata, vdata), head, head,
                        self.hcpat, self.hpat, Nothing, FALSE))

(* print once the visible descriptors, attributes and values are known *)
print_cells(self, head, cell, value) ==
    print_data(self, head, cell, head_data(self, head), value_data(self, cell, value))

(* print of the columns col_list and the rows row_list *)
print_selected(self, col_list, row_list) ==
    IF \E i \in 1 .. Len(col_list) : ~InRange(col_list[i], Len(self.header))
    THEN Aborted("IndexError", <<>>, <<>>)
    ELSE IF \E j \in 1 .. Len(row_list) :
              \/ ~InRange(row_list[j], Len(self.attr))
              \/ \E i \in 1 .. Len(col_list) :
                    ~InRange(col_list[i], Len(At(self.attr, row_list[j])))
    THEN Aborted("IndexError", <<>>, <<>>)
    ELSE print_cells(self,
             [i \in 1 .. Len(col_list) |-> At(self.header, col_list[i])],
             [j \in 1 .. Len(row_list) |->
                 [i \in 1 .. Len(col_list) |->
                     At(At(self.attr, row_list[j]), col_list[i])]],
             [j \in 1 .. Len(row_list) |->
                 [i \in 1 .. Len(col_list) |->
                     At(At(self.table, row_list[j]), col_list[i])]])

print(self, column, row) ==
    LET colr == selection(self.header, max_col(self), column)
        rowr == selection(self.index, self.max_row, row)
    IN  IF colr.raised # "" THEN Aborted(colr.raised, <<>>, <<>>)
        ELSE IF rowr.raised # "" THEN Aborted(rowr.raised, <<>>, <<>>)
        ELSE print_selected(self, colr.v, rowr.v)

----------------------------------------------------------------------------
(* The calls a user makes *)

(* SimpleTable.__init__ *)
(* math.inf if rdiv_cnt == 0 else rdiv_cnt *)
divider_interval(rdiv_cnt) ==
    IF rdiv_cnt = 0 THEN [inf |-> TRUE, n |-> 0] ELSE [inf |-> FALSE, n |-> rdiv_cnt]

SimpleTable(heads, sep, rdiv_cnt, is_partp, border, lsh, hpat, hcpat, vpat, vcpat, spat, cpat_alon) ==
    /\ style = [sep |-> sep, rdiv_cnt |-> divider_interval(rdiv_cnt), is_partp |-> is_partp,
                border |-> border, lsh |-> lsh, hpat |-> hpat, hcpat |-> hcpat,
                vpat |-> vpat, vcpat |-> vcpat, spat |-> spat,
                cpat_alon |-> cpat_alon]
    /\ max_row = 0
    /\ index = <<>>
    /\ header = [i \in 1 .. Len(heads) |-> HeadAttr(heads[i][1], heads[i][2])]
    /\ table = <<>>
    /\ attr = <<>>
    /\ index_head = HeadAttr(None, <<>>)
    /\ ident = <<>>
    /\ call = "__init__"
    /\ raised = ""
    /\ out = NoOutput

(* the state a call leaves: the table as the call left it, what it raised *)
Do(name, r) ==
    /\ header' = r.self.header
    /\ index' = r.self.index
    /\ table' = r.self.table
    /\ attr' = r.self.attr
    /\ max_row' = r.self.max_row
    /\ index_head' = r.self.index_head
    /\ ident' = Named(r.self.ident)
    /\ call' = name
    /\ raised' = r.raised
    /\ out' = NoOutput
    /\ UNCHANGED style

(* a call that reads the table: what it returned, or what it raised *)
Read(name, r) ==
    /\ call' = name
    /\ raised' = r.raised
    /\ out' = r.v
    /\ UNCHANGED <<tvars, style>>

AddRow(key, title, data, init, loc, align, is_sep, fs, border) ==
    Do("add_row", add_row(Self, key, title, data, init, loc, align, is_sep, fs, border))

AddCol(key, title, data, init, loc, align, is_sep, fs, border) ==
    Do("add_col", add_col(Self, key, title, data, init, loc, align, is_sep, fs, border))

SwapRow(index1, index2) == Do("swap_row", swap_row(Self, index1, index2))

SwapCol(index1, index2) == Do("swap_col", swap_col(Self, index1, index2))

DelRow(idx) == Do("del_row", del_row(Self, idx))

DelCol(idx) == Do("del_col", del_col(Self, idx))

SetHeadAttr(width, align, is_sep, border, lofs, rofs) ==
    Do("set_head_attr", set_head_attr(Self, width, align, is_sep, border, lofs, rofs))

SetIndexAttr(width, align, is_sep, border, lofs, rofs) ==
    Do("set_index_attr", set_index_attr(Self, width, align, is_sep, border, lofs, rofs))

SetRowAttr(idx, align, is_sep, fs, border) ==
    Do("set_row_attr", set_row_attr(Self, idx, align, is_sep, fs, border))

SetColAttr(idx, width, align, is_sep, fs, border) ==
    Do("set_col_attr", set_col_attr(Self, idx, width, align, is_sep, fs, border))

(* a print that keeps the widths it computed in the column descriptors *)
PrintTable_keeping_widths(column, row) ==
    LET r == print(Self, column, row)
    IN  /\ call' = "print"
        /\ raised' = r.raised
        /\ out' = [class |-> "print", lines |-> r.lines, csize_list |-> r.csize_list,
                   column |-> column, row |-> row]
        /\ header' = [i \in 1 .. Len(header) |->
                         [header[i] EXCEPT !.width =
                             IF i <= Len(r.csize_list) THEN r.csize_list[i] ELSE @]]
        /\ UNCHANGED <<index, table, attr, max_row, index_head, ident, style>>

(* table.print(column=..., row=...): what was written to the stream before
   the call returned or raised, and the widths it computed *)
PrintTable(column, row) ==
    LET r == print(Self, column, row)
    IN  /\ call' = "print"
        /\ raised' = r.raised
        /\ out' = [class |-> "print", lines |-> r.lines, csize_list |-> r.csize_list,
                   column |-> column, row |-> row]
        /\ UNCHANGED <<tvars, style>>

(* table.attr[rs, cs].border.<edge> = v *)
SetEdge(rs, cs, edge, v) ==
    Do("attr.border", set_edge(Self, rs, cs, edge, v))

(* table[idx] = that *)
SetItem(idx, that) ==
    Do("__setitem__", setitem(Self, idx, that))

(* table.get_col_width(index) *)
GetColWidth(idx) ==
    LET r == get_col_width(Self, idx)
    IN  /\ call' = "get_col_width"
        /\ raised' = r.raised
        /\ out' = [class |-> "int", v |-> r.v, index |-> idx]
        /\ UNCHANGED <<tvars, style>>

(* table.header[idx] and table.index[idx]: the keys of what was selected *)
HeaderGetItem(idx) == Read("header[]", IndexLocation_getitem(header, idx))

IndexGetItem(idx) == Read("index[]", IndexLocation_getitem(index, idx))

(* table[idx] *)
GetItem(idx) == Read("[]", getitem(Self, idx))

----------------------------------------------------------------------------
(* The inputs of the calls *)

Keys == {"a", "b", None}
StrKeys == {"a", "b"}

(* where a call may point in a list of n entries: nowhere (the default), a
   position inside, at or past either end, or a key *)
Locs(n) == {NoneLoc} \cup {IntLoc(i) : i \in {-1, 0, n - 1, n + 1}}
                     \cup {StrLoc(k) : k \in StrKeys}
Idxs(n) == Locs(n) \ {NoneLoc}
Bounds(n) == {NoneLoc, IntLoc(1)} \cup {StrLoc(k) : k \in StrKeys}
Slices(n) == {Slice(a, b) : a, b \in Bounds(n)}

Empty == <<>>
Title == <<"A">>
Value == <<"x">>

(* a value list of n entries *)
Full(n) == [i \in 1 .. n |-> Value]

----------------------------------------------------------------------------
(* The table under structural mutation: SimpleTable(heads) with one or two
   columns, then any structural calls *)

Init ==
    \E heads \in {<<<<"a", Title>>>>, <<<<"a", Title>>, <<"b", Title>>>>} :
        SimpleTable(heads, ".", 0, TRUE, DefaultBorder, 0, "-", "+", "-", "+",
                    "|", FALSE)

Next ==
    \/ /\ RoomForRow(MaxRow)
       /\ \E key \in {"a", None}, data \in {Empty, Full(Len(header))},
             loc \in Locs(max_row) :
             AddRow(key, Title, data, Empty, loc, "NONE", Nothing, Nothing, Nothing)
    \/ /\ RoomForCol(MaxCol)
       /\ \E key \in StrKeys, data \in {Empty, Full(max_row)},
             loc \in Locs(Len(header)) :
             AddCol(key, Title, data, Empty, loc, "TL", FALSE, DefaultFs,
                    Some(DefaultBorder))
    \/ \E i1, i2 \in Idxs(max_row) : SwapRow(i1, i2)
    \/ \E i1, i2 \in Idxs(Len(header)) : SwapCol(i1, i2)
    \/ \E idx \in Idxs(max_row) : DelRow(idx)
    \/ \E idx \in Idxs(Len(header)) : DelCol(idx)

Spec == Init /\ [][Next]_vars

----------------------------------------------------------------------------
(* The descriptor sequences under insertion, and the lookups made on them *)

NextKeys ==
    \/ /\ RoomForRow(MaxKeyRows)
       /\ \E key \in {"a", None}, loc \in {NoneLoc, IntLoc(0), StrLoc("a")} :
             AddRow(key, Title, Full(Len(header)), Empty, loc, "NONE", Nothing,
                    Nothing, Nothing)
    \/ /\ RoomForCol(MaxKeyCols)
       /\ \E key \in Keys, loc \in {NoneLoc, IntLoc(0), StrLoc("a")} :
             AddCol(key, Title, Full(max_row), Empty, loc, "TL", FALSE, DefaultFs,
                    Some(DefaultBorder))
    \/ \E idx \in Idxs(max_row) : DelRow(idx)
    \/ \E idx \in Idxs(Len(header)) \cup Slices(Len(header)) : HeaderGetItem(idx)
    \/ \E idx \in Idxs(max_row) \cup Slices(max_row) : IndexGetItem(idx)
    \/ \E idx \in Idxs(max_row) \cup Slices(max_row) : GetItem(idx)

SpecKeys == Init /\ [][NextKeys]_vars

----------------------------------------------------------------------------
(* The table under rendering: SimpleTable(heads, ...) in one of a few styles,
   rows appended with their values and attributes, widths declared, then
   print and get_col_width under a selection of columns and rows *)

Chars(a, b, c, d, e) == <<a, b, c, d, e>>

RenderHeads ==
    {<<<<"a", Chars("A", "B", "C", ".", "D")>>>>,
     <<<<"a", <<"A">>>>, <<"b", Chars("A", "B", "C", ".", "D")>>>>}

(* rdiv_cnt, is_partp, border, lsh, cpat_alon *)
RenderStyles ==
    {<<0, TRUE, DefaultBorder, 0, FALSE>>,
     <<1, TRUE, DefaultBorder, 0, FALSE>>,
     <<2, FALSE, DefaultBorder, 0, FALSE>>,
     <<0, TRUE, Border(TRUE, FALSE, TRUE, TRUE), 0, FALSE>>}

(* the rows appended: a value for every column and the attributes left to
   default, or no value (every cell takes init) and attributes given *)
RowData == Chars("a", "b", "c", ".", "d")
RowInit == <<"x">>
RowFs == <<"{}", ".", "k", "k", "k", "k">>

FixedWidths == {0, 2}

(* selections: all, a list of positions, a list of keys *)
IntSel(list) == Some([t |-> "int", list |-> list])
StrSel(list) == Some([t |-> "str", list |-> list])
ColSels == {Nothing, IntSel(<<1, 0>>), StrSel(<<"b">>)}
RowSels == {Nothing, IntSel(<<1, 0>>), IntSel([i \in 1 .. MaxSel |-> -1])}

InitRender ==
    \E heads \in RenderHeads, st \in RenderStyles :
        SimpleTable(heads, ".", st[1], st[2], st[3], st[4], "=", "#", "-", "+",
                    "|", st[5])

NextRender ==
    \/ /\ RoomForRow(MaxRRow)
       /\ \/ AddRow("r", Title, [i \in 1 .. Len(header) |-> RowData], RowInit,
                    NoneLoc, "NONE", Nothing, Nothing, Nothing)
          \/ AddRow("r", Title, Empty, RowInit, NoneLoc, "BR", Some(TRUE),
                    Some(RowFs), Some(Border(TRUE, FALSE, FALSE, TRUE)))
    \/ \E width \in FixedWidths :
          SetColAttr(IntLoc(0), Some(width), Nothing, Nothing, Nothing, Nothing)
    \/ \E is_sep \in BOOLEAN :
          SetHeadAttr(Nothing, Nothing, Some(is_sep), Nothing, Nothing, Nothing)
    \/ \E column \in ColSels, row \in RowSels : PrintTable(column, row)
    \/ \E idx \in {IntLoc(0), StrLoc("b")} : GetColWidth(idx)

SpecRender == InitRender /\ [][NextRender]_vars

----------------------------------------------------------------------------
(* The table under attribute changes: rows and columns added with their
   attributes left to default or given, the four attribute setters called
   with an alignment (Align.NONE among them), and print *)

(* add_row and add_col called without attribute arguments *)
AddRowDefault(key, loc) ==
    AddRow(key, Title, Full(Len(header)), Empty, loc, "NONE", Nothing, Nothing, Nothing)
AddColDefault(key, loc) ==
    AddCol(key, Title, Full(max_row), Empty, loc, "TL", FALSE, DefaultFs, Nothing)

GivenFs == <<"<", "{}", ">">>
GivenBorder == Border(TRUE, FALSE, TRUE, FALSE)
SetAligns == {"NONE", "CR"}
AttrLocs == {NoneLoc, IntLoc(0)}

NextAttr ==
    \/ /\ RoomForRow(MaxARow)
       /\ \E loc \in AttrLocs :
             \/ AddRowDefault("r", loc)
             \/ AddRow("r", Title, Full(Len(header)), Empty, loc, "BR", Some(TRUE),
                       Some(GivenFs), Some(GivenBorder))
    \/ /\ RoomForCol(MaxACol)
       /\ \E loc \in AttrLocs :
             \/ AddColDefault("b", loc)
             \/ AddCol("b", Title, Full(max_row), Empty, loc, "BC", TRUE, GivenFs,
                       Some(GivenBorder))
    \/ \E align \in SetAligns :
          SetHeadAttr(Nothing, Some(align), Nothing, Nothing, Nothing, Nothing)
    \/ SetIndexAttr(Some(2), Some("NONE"), Nothing, Nothing, Nothing, Nothing)
    \/ \E align \in SetAligns :
          SetRowAttr(IntLoc(0), Some(align), Nothing, Nothing, Nothing)
    \/ \E align \in SetAligns :
          SetColAttr(IntLoc(0), Nothing, Some(align), Nothing, Nothing, Nothing)
    \/ PrintTable(Nothing, Nothing)

InitAttr ==
    SimpleTable(<<<<"a", Title>>>>, ".", 0, TRUE, DefaultBorder, 0, "-", "+", "-",
                "+", "|", FALSE)

SpecAttr == InitAttr /\ [][NextAttr]_vars

----------------------------------------------------------------------------
(* The table under layout: two columns, the first title of two segments;
   rows whose cells differ in their number of segments, in alignment and in
   borders, or hold one long segment; a width declared for every column; print
   under a selection *)

(* is_partp, border, cpat_alon *)
LayoutStyles ==
    {<<TRUE, DefaultBorder, FALSE>>,
     <<FALSE, Border(TRUE, TRUE, FALSE, FALSE), FALSE>>,
     <<FALSE, DefaultBorder, TRUE>>}

LayoutHeads == <<<<"a", <<"A", ".", "B">>>>, <<"b", <<"C">>>>>>

(* the values of a row: three segments beside one, or one long segment beside
   one a character shorter *)
SplitData == <<Chars("a", ".", "b", ".", "c"), <<"d">>>>
LongData == <<Chars("a", "b", "c", "d", "e"), <<"a", "b", "c", "d">>>>
OpenBorder == Border(TRUE, TRUE, FALSE, FALSE)
LayoutWidth == 4

InitLayout ==
    \E st \in LayoutStyles :
        SimpleTable(LayoutHeads, ".", 1, st[1], st[2], 0, "=", "#", "-", "+", "|", st[3])

NextLayout ==
    \/ /\ RoomForRow(MaxLRow)
       /\ \/ AddRow("r", Title, SplitData, Empty, NoneLoc, "NONE", Some(TRUE),
                    Nothing, Nothing)
          \/ AddRow("r", Title, SplitData, Empty, NoneLoc, "CC", Some(TRUE),
                    Nothing, Some(OpenBorder))
          \/ AddRow("r", Title, SplitData, Empty, NoneLoc, "BR", Some(TRUE),
                    Nothing, Some(DefaultBorder))
          \/ AddRow("r", Title, LongData, Empty, NoneLoc, "NONE", Some(FALSE),
                    Nothing, Nothing)
    \/ \E align \in {"CC", "BR"} :
          SetHeadAttr(Nothing, Some(align), Nothing, Nothing, Nothing, Nothing)
    \/ SetHeadAttr(Some(LayoutWidth), Nothing, Nothing, Nothing, Nothing, Nothing)
    \/ \E column \in {Nothing, IntSel(<<1, 0>>)}, row \in {Nothing, IntSel(<<-1>>)} :
          PrintTable(column, row)

SpecLayout == InitLayout /\ [][NextLayout]_vars

(* The table under line composition: two columns in a style that shifts the
   table or leaves out an outer border; rows of short values, of one long
   value, of split values, with the borders of their cells given; the titles
   split or not, a width and offsets declared; print under a selection *)

(* is_partp, border, lsh, rdiv_cnt *)
LineStyles ==
    {<<TRUE, DefaultBorder, 2, 0>>,
     <<FALSE, Border(TRUE, TRUE, FALSE, TRUE), 0, 0>>,
     <<FALSE, Border(TRUE, TRUE, TRUE, FALSE), 1, 1>>,
     <<FALSE, DefaultBorder, 0, 0>>}

ShortData == <<<<"d">>, <<"e", "f">>>>
LeftOnly == Border(TRUE, TRUE, TRUE, FALSE)
RightOnly == Border(TRUE, TRUE, FALSE, TRUE)
(* lofs, rofs *)
LineOffsets == <<0, 2>>

InitLines ==
    \E st \in LineStyles :
        SimpleTable(LayoutHeads, ".", st[4], st[1], st[2], st[3], "=", "#", "-", "+", "|", FALSE)

NextLines ==
    \/ /\ RoomForRow(MaxLRow)
       /\ \/ AddRow("r", Title, ShortData, Empty, NoneLoc, "NONE", Nothing, Nothing, Nothing)
          \/ AddRow("r", Title, LongData, Empty, NoneLoc, "NONE", Some(FALSE), Nothing,
                    Some(RightOnly))
          \/ AddRow("r", Title, SplitData, Empty, NoneLoc, "CR", Some(TRUE), Nothing,
                    Some(LeftOnly))
    \/ SetHeadAttr(Nothing, Nothing, Some(FALSE), Nothing, Nothing, Nothing)
    \/ SetHeadAttr(Some(LayoutWidth), Nothing, Nothing, Nothing, Nothing, Nothing)
    \/ SetHeadAttr(Nothing, Nothing, Nothing, Nothing, Some(LineOffsets[1]),
                  Some(LineOffsets[2]))
    \/ \E column \in {Nothing, IntSel(<<1, 0>>), IntSel(<<0>>)} :
          \E row \in {Nothing, IntSel(<<-1>>), IntSel(<<1, 0>>)} : PrintTable(column, row)

SpecLines == InitLines /\ [][NextLines]_vars

(* The table under assignment: one or two columns, rows appended under the keys
   "r" and "s", then table[...] = ... in each of its forms with a list or a
   grid shorter than, as long as or longer than the range it names *)

New == <<"y">>
List(n) == [i \in 1 .. n |-> New]
Grid(m, n) == [i \in 1 .. m |-> List(n)]
RowIdx == {IntLoc(0), IntLoc(-1), StrLoc("s")}
ColIdx == {IntLoc(1), StrLoc("a")}
RowSlices == {Slice(NoneLoc, NoneLoc), Slice(IntLoc(1), NoneLoc), Slice(NoneLoc, StrLoc("r"))}
ColSlices == {Slice(NoneLoc, NoneLoc), Slice(StrLoc("b"), NoneLoc)}

NextAssign ==
    \/ /\ RoomForRow(MaxARow)
       /\ \E key \in {"r", "s"} :
             AddRow(key, Title, Full(Len(header)), Empty, NoneLoc, "NONE", Nothing,
                    Nothing, Nothing)
    \/ \E idx \in RowIdx, n \in 0 .. Len(header) + 1 : SetItem(idx, List(n))
    \/ \E idx \in RowSlices, m \in 0 .. max_row + 1, n \in 1 .. Len(header) + 1 :
          SetItem(idx, Grid(m, n))
    \/ \E rs \in RowSlices, cs \in ColSlices, m \in 0 .. max_row + 1, n \in 1 .. Len(header) + 1 :
          SetItem(Pair(rs, cs), Grid(m, n))
    \/ \E rs \in RowSlices, cs \in ColIdx, n \in 0 .. max_row + 1 :
          SetItem(Pair(rs, cs), List(n))
    \/ \E rs \in RowIdx, cs \in ColSlices, n \in 0 .. Len(header) + 1 :
          SetItem(Pair(rs, cs), List(n))
    \/ \E rs \in RowIdx, cs \in ColIdx : SetItem(Pair(rs, cs), New)

SpecAssign == Init /\ [][NextAssign]_vars

(* The table under insertion with borders given or left to default, and the
   edge flags of its cells set through table.attr *)

NextAlias ==
    \/ /\ RoomForRow(MaxARow)
       /\ \/ AddRowDefault("r", NoneLoc)
          \/ AddRow("r", Title, Full(Len(header)), Empty, NoneLoc, "NONE", Nothing, Nothing,
                    Some(GivenBorder))
    \/ /\ RoomForCol(MaxACol)
       /\ \/ AddColDefault("b", NoneLoc)
          \/ AddCol("b", Title, Full(max_row), Empty, NoneLoc, "TL", FALSE, DefaultFs,
                    Some(GivenBorder))
    \/ \E rs \in {IntLoc(0), IntLoc(-1)}, cs \in {IntLoc(0), StrLoc("b")} :
          \E edge \in {"left", "bottom"}, v \in BOOLEAN : SetEdge(rs, cs, edge, v)

SpecAlias == InitAttr /\ [][NextAlias]_vars

----------------------------------------------------------------------------
(* Properties of the table's shape *)

StructuralCalls == {"add_row", "add_col", "del_row", "del_col", "swap_row", "swap_col"}

(* C1: after any sequence of structural calls the grid is rectangular and
   matches the descriptors: as many row descriptors, value rows and attribute
   rows as max_row, and max_col entries in every value row and attribute row. *)
C1_GridMatchesDescriptors ==
    /\ Len(index) = max_row
    /\ Len(table) = max_row
    /\ Len(attr) = max_row
    /\ \A i \in 1 .. Len(table) : Len(table[i]) = Len(header)
    /\ \A i \in 1 .. Len(attr) : Len(attr[i]) = Len(header)

(* C2: a table constructed with at least one column always has at least one
   column, and a del_col that returns after deleting the last column leaves
   exactly the fallback column. *)
C2_AtLeastOneColumn == Len(header) >= 1

(* C3: a structural call that raises leaves the row descriptors, the column
   descriptors, the values, the attributes and max_row as they were. *)
C3_RaisingCallChangesNothing ==
    [][(call' \in StructuralCalls /\ raised' # "") => UNCHANGED tvars]_vars

----------------------------------------------------------------------------
(* Properties of key resolution *)

(* a descriptor sequence with a key that is no string, or with one key twice *)
Faulty(idata) ==
    \/ \E i \in 1 .. Len(idata) : idata[i].key = None
    \/ \E i, j \in 1 .. Len(idata) : i # j /\ idata[i].key = idata[j].key

HasKey(idata, k) == \E i \in 1 .. Len(idata) : idata[i].key = k

(* the 0-based position of the descriptor with key k *)
KeyPos(idata, k) == (CHOOSE i \in 1 .. Len(idata) : idata[i].key = k) - 1

LookupKeys == StrKeys \cup {"title1", "zz"}

(* C4: while a descriptor sequence holds a duplicate or a non-string key, every
   resolution of a string key against it raises KeyError, whichever key is
   looked up, and the call that asked for it changes nothing. *)
C4_FaultySequenceFailsEveryKeyLookup ==
    /\ \A idata \in {header, index} :
          Faulty(idata) =>
             /\ get_id(idata).raised = "KeyError"
             /\ id(idata).raised = "KeyError"
             /\ \A k \in LookupKeys :
                   /\ get_index(idata, StrLoc(k), 1).raised = "KeyError"
                   /\ IndexLocation_get_index(idata, StrLoc(k), 1).raised = "KeyError"
                   /\ \A b \in {NoneLoc, IntLoc(0), StrLoc(k)} :
                         /\ get_index(idata, Slice(StrLoc(k), b), 2).raised = "KeyError"
                         /\ get_index(idata, Slice(b, StrLoc(k)), 2).raised = "KeyError"
                   /\ IndexLocation_getitem(idata, StrLoc(k)).raised = "KeyError"
    /\ Faulty(header) =>
          \A k \in LookupKeys :
             /\ del_col(Self, StrLoc(k)) = Raised(Self, "KeyError")
             /\ swap_col(Self, StrLoc(k), IntLoc(0)) = Raised(Self, "KeyError")
             /\ swap_col(Self, IntLoc(0), StrLoc(k)) = Raised(Self, "KeyError")
             /\ add_col(Self, "b", <<"B">>, <<>>, <<>>, StrLoc(k), "TL", FALSE,
                        DefaultFs, Nothing) = Raised(Self, "KeyError")
    /\ Faulty(index) =>
          \A k \in LookupKeys :
             /\ del_row(Self, StrLoc(k)) = Raised(Self, "KeyError")
             /\ swap_row(Self, StrLoc(k), IntLoc(0)) = Raised(Self, "KeyError")
             /\ add_row(Self, "b", <<"B">>, <<>>, <<>>, StrLoc(k), "NONE", Nothing,
                        Nothing, Nothing) = Raised(Self, "KeyError")
             /\ getitem(Self, StrLoc(k)).raised = "KeyError"

(* a lookup on the columns has just failed although the columns hold a valid
   key of their own beside a duplicated one, which add_col inserted unchecked *)
C4_Witness ==
    /\ call = "header[]"
    /\ raised = "KeyError"
    /\ \E i, j, u \in 1 .. Len(header) :
          /\ i # j
          /\ header[i].key = header[j].key
          /\ header[u].key \in StrKeys
          /\ \A v \in 1 .. Len(header) : v # u => header[v].key # header[u].key

(* the bounds a range is tried with *)
TryBounds(idata) ==
    {NoneLoc} \cup {IntLoc(i) : i \in -2 .. Len(idata) + 2}
              \cup {StrLoc(k) : k \in LookupKeys}

Resolvable(idata, b) == b.t # "str" \/ (~Faulty(idata) /\ HasKey(idata, b.k))

(* C5: a range resolves to the half-open range [st, ed): an omitted start is 0,
   an omitted end the length; an int bound is itself, unchecked, and needs no
   key map; a key as start is its position, a key as end its position + 1. *)
C5_RangeResolution ==
    \A idata \in {header, index} :
       \A a, b \in TryBounds(idata) :
          LET st == IF a.t = "none" THEN 0
                    ELSE IF a.t = "int" THEN a.i ELSE KeyPos(idata, a.k)
              ed == IF b.t = "none" THEN Len(idata)
                    ELSE IF b.t = "int" THEN b.i ELSE KeyPos(idata, b.k) + 1
              r1 == get_index(idata, Slice(a, b), 2)
              r2 == IndexLocation_get_index(idata, Slice(a, b), 2)
          IN  IF Resolvable(idata, a) /\ Resolvable(idata, b)
              THEN r1 = Ok([st |-> st, ed |-> ed]) /\ r2 = r1
              ELSE r1.raised = "KeyError" /\ r2.raised = "KeyError"

(* table.header["a":"b"] has returned both columns of a table whose columns
   are keyed "a" and then "b": the end key's column is included *)
C5_Witness ==
    /\ call = "header[]"
    /\ raised = ""
    /\ Len(header) >= 2
    /\ header[1].key = "a"
    /\ header[2].key = "b"
    /\ ~Faulty(header)
    /\ out = Index(<<header[1], header[2]>>)
    /\ get_index(header, Slice(StrLoc("a"), StrLoc("b")), 2) = Ok([st |-> 0, ed |-> 2])
    /\ get_index(header, Slice(IntLoc(0), IntLoc(1)), 2) = Ok([st |-> 0, ed |-> 1])

----------------------------------------------------------------------------
(* Properties of a render *)

(* print has returned; the columns and rows it showed, as 0-based positions *)
Rendered == call = "print" /\ raised = ""
VisibleCols == selection(header, Len(header), out.column).v
VisibleRows == selection(index, max_row, out.row).v
ShownCol(i) == At(header, VisibleCols[i])

(* the lengths of the segments of a text: of its maximal pieces free of the
   separator when it is split, of the text itself when it is not *)
SegmentLengths(text, is_sep) ==
    IF is_sep
    THEN {b - a + 1 : <<a, b>> \in
            {<<a, b>> \in (1 .. Len(text) + 1) \X (0 .. Len(text)) :
                /\ a <= b + 1
                /\ a = 1 \/ text[a - 1] = style.sep
                /\ b = Len(text) \/ text[b + 1] = style.sep
                /\ \A k \in a .. b : text[k] # style.sep}}
    ELSE {Len(text)}

Longest(S) == CHOOSE m \in S : \A x \in S : x <= m

TitleLengths(h) == SegmentLengths(h.title, h.is_sep)

(* the segment lengths of the formatted value at row r, column c (0-based) *)
CellLengths(r, c) ==
    SegmentLengths(format(At(At(attr, r), c).fs, At(At(table, r), c)),
                   At(At(attr, r), c).is_sep)

(* the length every line of the header block has under the widths printed *)
BlockWidth ==
    LET RECURSIVE Sum(_)
        Sum(i) == IF i = 0 THEN 0
                  ELSE Sum(i - 1) + out.csize_list[i] + ShownCol(i).lofs + ShownCol(i).rofs
    IN  style.lsh + Sum(Len(VisibleCols)) + (Len(VisibleCols) - 1)
        + (IF style.border.left THEN 1 ELSE 0) + (IF style.border.right THEN 1 ELSE 0)

(* C6: in every render, a shown column whose declared width is 0 gets exactly
   the length of the longest segment among its title (split when the header
   cell's is_sep is set) and the formatted values of its visible cells (each
   split when that cell's is_sep is set); the header block is laid out with
   the widths computed. *)
C6_AutoWidthIsLongestVisibleSegment ==
    Rendered =>
       /\ \A i \in 1 .. Len(VisibleCols) :
             ShownCol(i).width = 0 =>
                out.csize_list[i] =
                   Longest(TitleLengths(ShownCol(i))
                           \cup UNION {CellLengths(VisibleRows[j], VisibleCols[i]) :
                                          j \in 1 .. Len(VisibleRows)})
       /\ \A p \in 1 .. Len(out.lines) :
             out.lines[p].site = 1250 => Len(out.lines[p].text) = BlockWidth

(* a render of some but not all rows, in which a column of width 0 took its
   width from a visible cell's formatted value, longer than the title's
   segments and than the unformatted value, while a row not shown holds a
   longer segment still *)
C6_Witness ==
    /\ Rendered
    /\ \E i \in 1 .. Len(VisibleCols) :
          /\ ShownCol(i).width = 0
          /\ out.csize_list[i] > Longest(TitleLengths(ShownCol(i)))
          /\ \E j \in 1 .. Len(VisibleRows) :
                /\ out.csize_list[i] \in CellLengths(VisibleRows[j], VisibleCols[i])
                /\ out.csize_list[i] > Len(At(At(table, VisibleRows[j]), VisibleCols[i]))
          /\ \E r \in 0 .. max_row - 1 :
                /\ \A j \in 1 .. Len(VisibleRows) : PyIdx(VisibleRows[j], max_row) # r
                /\ Longest(CellLengths(r, VisibleCols[i])) > out.csize_list[i]

(* the column get_col_width was asked about *)
AskedCol == At(header, IdOf(header, out.index).v)

(* C7: a column whose declared width is not 0 is rendered, and reported by
   get_col_width, with the declared width or the length of its title's longest
   segment, whichever is larger; no cell value makes it wider. *)
C7_FixedWidthOrLongerTitle ==
    /\ Rendered =>
          \A i \in 1 .. Len(VisibleCols) :
             ShownCol(i).width # 0 =>
                /\ out.csize_list[i] >= ShownCol(i).width
                /\ out.csize_list[i] >= Longest(TitleLengths(ShownCol(i)))
                /\ out.csize_list[i] \in
                      {ShownCol(i).width, Longest(TitleLengths(ShownCol(i)))}
    /\ (call = "get_col_width" /\ raised = "") =>
          (AskedCol.width # 0 =>
              /\ out.v >= AskedCol.width
              /\ out.v >= Longest(TitleLengths(AskedCol))
              /\ out.v \in {AskedCol.width, Longest(TitleLengths(AskedCol))})

(* a render showing a column of declared width 2 in which a visible cell's
   segment is longer than the width the column was given *)
C7_Witness ==
    /\ Rendered
    /\ \E i \in 1 .. Len(VisibleCols) :
          /\ ShownCol(i).width # 0
          /\ \E j \in 1 .. Len(VisibleRows) :
                Longest(CellLengths(VisibleRows[j], VisibleCols[i])) > out.csize_list[i]

(* C7 as the specification words it: the width is exactly the declared one *)
C7_WidthIsExactlyFixed ==
    /\ Rendered =>
          \A i \in 1 .. Len(VisibleCols) :
             ShownCol(i).width # 0 => out.csize_list[i] = ShownCol(i).width
    /\ (call = "get_col_width" /\ raised = "") =>
          (AskedCol.width # 0 => out.v = AskedCol.width)

(* the lines of a render by the statement that printed them *)
IsTopBorder(l) == l.site = 1206
IsHeaderLine(l) == l.site = 1250
IsHeaderDivider(l) == l.site \in {1264, 1357}
IsRowDivider(l) == l.site = 1275
IsDataLine(l) == l.site = 1345
IsBottomBorder(l) == l.site \in {1358, 1367}

(* the first line of the data row at position j (0-based) of the selection *)
RowStart(j) ==
    CHOOSE p \in 1 .. Len(out.lines) :
       /\ IsDataLine(out.lines[p]) /\ out.lines[p].row = j
       /\ \A q \in 1 .. p - 1 : ~(IsDataLine(out.lines[q]) /\ out.lines[q].row = j)

(* a row divider stands immediately before the data row at position j *)
DividerBefore(j) == RowStart(j) > 1 /\ IsRowDivider(out.lines[RowStart(j) - 1])

(* the number of data rows printed between the last divider (header divider or
   row divider) above the place where row j's divider would stand, and row j *)
RowsSinceDivider(j) ==
    LET here == IF DividerBefore(j) THEN RowStart(j) - 1 ELSE RowStart(j)
        dividers == {q \in 1 .. here - 1 :
                        IsHeaderDivider(out.lines[q]) \/ IsRowDivider(out.lines[q])}
        last == CHOOSE q \in dividers : \A x \in dividers : x <= q
    IN  Cardinality({out.lines[q].row : q \in {x \in last + 1 .. here - 1 :
                                                  IsDataLine(out.lines[x])}})

(* C8: in a render with rdiv_cnt = k > 0 a row divider stands immediately
   before a data row exactly when k data rows were printed since the previous
   divider, that is before the rows at the 1-based positions k+1, 2k+1, 3k+1,
   ... of the selection, and nowhere else; with rdiv_cnt = 0 there is none. *)
C8_DividerAfterEveryKRows ==
    Rendered =>
       /\ \A p \in 1 .. Len(out.lines) :
             IsRowDivider(out.lines[p]) =>
                /\ ~style.rdiv_cnt.inf
                /\ p < Len(out.lines)
                /\ RowStart(out.lines[p].row) = p + 1
       /\ ~style.rdiv_cnt.inf =>
             \A j \in 0 .. Len(VisibleRows) - 1 :
                /\ DividerBefore(j) <=> RowsSinceDivider(j) = style.rdiv_cnt.n
                /\ DividerBefore(j) <=> (j > 0 /\ j % style.rdiv_cnt.n = 0)

(* a render with rdiv_cnt = 1 of at least three rows: a divider stands before
   the second row and before the third *)
C8_Witness ==
    /\ Rendered
    /\ ~style.rdiv_cnt.inf
    /\ Len(VisibleRows) >= 3
    /\ DividerBefore(1)
    /\ DividerBefore(2)
    /\ ~DividerBefore(0)

(* C8 as the specification words it: a divider before every (k+1)-th row *)
C8_DividerBeforeEveryKPlus1thRow ==
    (Rendered /\ ~style.rdiv_cnt.inf) =>
       \A j \in 0 .. Len(VisibleRows) - 1 :
          DividerBefore(j) <=> (j + 1) % (style.rdiv_cnt.n + 1) = 0

(* C9: every render prints the header divider exactly once, directly after
   the last line of the header block and before any data row, whatever the
   number of visible rows, rdiv_cnt and the outer border. *)
C9_HeaderDividerOnceAfterHeader ==
    Rendered =>
       /\ Cardinality({p \in 1 .. Len(out.lines) : IsHeaderDivider(out.lines[p])}) = 1
       /\ \A p \in 1 .. Len(out.lines) :
             IsHeaderDivider(out.lines[p]) =>
                /\ p > 1
                /\ IsHeaderLine(out.lines[p - 1])
                /\ \A q \in 1 .. p - 1 : ~IsDataLine(out.lines[q])

(* print of all rows of a table without rows, its columns validly selected *)
ZeroRowPrint ==
    /\ call = "print"
    /\ max_row = 0
    /\ ~out.row.some
    /\ selection(header, Len(header), out.column).raised = ""
    /\ \A i \in 1 .. Len(VisibleCols) : InRange(VisibleCols[i], Len(header))

(* the lines printed after the top border *)
AfterTop == IF style.border.top THEN Tail(out.lines) ELSE out.lines

(* C10: a table without rows renders: no data line and no row divider is
   printed; the top border comes first when enabled; with the bottom border
   enabled the header block is followed by exactly two lines, the same divider
   twice (the header divider, then the bottom border); with the bottom border
   disabled no bottom border is printed. *)
C10_ZeroRowsRender ==
    ZeroRowPrint =>
       /\ raised = ""
       /\ style.border.top => Len(out.lines) >= 1 /\ IsTopBorder(out.lines[1])
       /\ \A p \in 1 .. Len(out.lines) :
             ~IsDataLine(out.lines[p]) /\ ~IsRowDivider(out.lines[p])
       /\ ~style.border.bottom =>
             \A p \in 1 .. Len(out.lines) : ~IsBottomBorder(out.lines[p])
       /\ style.border.bottom =>
             LET n == Len(AfterTop)
             IN  /\ n >= 3
                 /\ \A p \in 1 .. n - 2 : IsHeaderLine(AfterTop[p])
                 /\ AfterTop[n - 1].site = 1357
                 /\ AfterTop[n].site = 1358
                 /\ AfterTop[n - 1].text = AfterTop[n].text

(* a table without rows has been rendered with both outer borders enabled:
   two lines follow the header block *)
C10_Witness ==
    /\ ZeroRowPrint
    /\ raised = ""
    /\ style.border.top
    /\ style.border.bottom
    /\ Len(out.lines) >= 4
    /\ IsHeaderLine(out.lines[Len(out.lines) - 2])
    /\ IsHeaderDivider(out.lines[Len(out.lines) - 1])
    /\ IsBottomBorder(out.lines[Len(out.lines)])

(* C10 as the specification words it: only the top border, the header block
   and the bottom border, no other divider *)
C10_ZeroRowsOnlyBordersAndHeader ==
    ZeroRowPrint =>
       /\ raised = ""
       /\ Cardinality({p \in 1 .. Len(out.lines) : ~IsHeaderLine(out.lines[p])})
             = (IF style.border.top THEN 1 ELSE 0)
               + (IF style.border.bottom THEN 1 ELSE 0)

(* C11: print is read-only and deterministic: a print step leaves every
   descriptor, cell value, cell attribute and style setting unchanged, and a
   print that follows a print of the same selection, nothing having changed in
   between, writes the same lines and raises the same. *)
C11_PrintReadsOnly ==
    [][call' = "print" =>
          /\ UNCHANGED <<tvars, style>>
          /\ (call = "print" /\ out.column = out'.column /\ out.row = out'.row) =>
                (out'.lines = out.lines /\ raised' = raised)]_vars

(* a table with a row has been printed, a selection of columns given, and a
   data line written *)
C11_Witness ==
    /\ Rendered
    /\ max_row >= 1
    /\ out.column.some
    /\ \E p \in 1 .. Len(out.lines) : IsDataLine(out.lines[p])

(* the position an insert at loc uses in a list of n entries, as the delete
   that follows is given it: loc itself, n when loc is left out *)
InsertedAt(loc, n) == IF loc = NoneLoc THEN IntLoc(n) ELSE loc

(* add_row at loc then del_row at the same position, from the table as it is *)
RowRoundTrip(loc) ==
    LET r == add_row(Self, "n", Title, Full(Len(header)), Empty, loc, "NONE",
                     Nothing, Nothing, Nothing)
    IN  r.raised = "" => del_row(r.self, InsertedAt(loc, max_row)) = Returned(Self)

(* add_col at loc then del_col at the same position, from the table as it is *)
ColRoundTrip(loc) ==
    LET r == add_col(Self, "n", Title, Full(max_row), Empty, loc, "TL", FALSE,
                     DefaultFs, Some(DefaultBorder))
    IN  r.raised = "" => del_col(r.self, InsertedAt(loc, Len(header))) = Returned(Self)

(* C12: in every table the calls reach, add_row at a position the insert
   accepts followed by del_row at that position, and add_col followed by
   del_col, returns and leaves the descriptors, the cell values and the cell
   attributes as they were before the insert. *)
C12_InsertThenDeleteRestores ==
    /\ \A loc \in Locs(max_row) : RowRoundTrip(loc)
    /\ \A loc \in Locs(Len(header)) : ColRoundTrip(loc)

(* the attributes of a cell that has none to copy *)
Baseline == TableAttr("TL", FALSE, DefaultFs, DefaultBorder)

(* the 0-based position at which an insert at loc lands in a list of n entries *)
LandsAt(loc, n) == IF loc = NoneLoc THEN n ELSE InsertPos(loc.i, n)

(* add_row without attribute arguments at loc: every cell of the new row has
   the attributes of the cell above it, the baseline when no row is above *)
NewRowCopiesRowAbove(loc) ==
    LET r == add_row(Self, "n", Title, Full(Len(header)), Empty, loc, "NONE",
                     Nothing, Nothing, Nothing)
        p == LandsAt(loc, max_row)
    IN  r.raised = "" =>
           \A i \in 1 .. Len(header) :
              r.self.attr[p + 1][i] = IF p >= 1 THEN attr[p][i] ELSE Baseline

(* C13: in every table the calls reach, add_row called without align, is_sep,
   fs and border gives each cell of the new row the attributes of the cell in
   the same column of the row directly above the position of the new row, and
   the baseline (TL, no split, "{}", all four edges) when no row is above. *)
C13_NewRowCopiesRowAbove == \A loc \in AttrLocs : NewRowCopiesRowAbove(loc)

(* add_col without attribute arguments at loc: every cell of the new column
   has the attributes of the cell of the previous column in its row, the
   baseline when no column is before it, and the table then prints *)
NewColCopiesPreviousCol(loc) ==
    LET r == add_col(Self, "n", Title, Full(max_row), Empty, loc, "TL", FALSE,
                     DefaultFs, Nothing)
        p == LandsAt(loc, Len(header))
    IN  r.raised = "" =>
           /\ \A i \in 1 .. max_row :
                 /\ r.self.attr[i][p + 1] = IF p >= 1 THEN attr[i][p] ELSE Baseline
                 /\ r.self.attr[i][p + 1].border # NoneBorder
           /\ print(r.self, Nothing, Nothing).raised = ""

(* C14: in every table the calls reach, add_col called without attribute
   arguments gives each cell of the new column the attributes of the previous
   column's cell in the same row, the baseline for a column with none before
   it; every such cell carries a Border, and a print directly after the
   add_col returns. *)
C14_NewColCopiesPreviousCol == \A loc \in AttrLocs : NewColCopiesPreviousCol(loc)

(* C15: after any sequence of add_row, add_col, set_head_attr, set_index_attr,
   set_row_attr and set_col_attr on a fresh table, every column header and
   every data cell carries one of the nine concrete alignments, never
   Align.NONE, and no print raises the undefined-alignment error. *)
C15_NoneAlignNeverStored ==
    /\ \A c \in 1 .. Len(header) : header[c].align \in Aligns \ {"NONE"}
    /\ \A r \in 1 .. Len(attr) : \A c \in 1 .. Len(attr[r]) :
          attr[r][c].align \in Aligns \ {"NONE"}
    /\ call = "print" => raised # "SyntaxError"

(* What a render shows, read off the table and the selection: the cell at
   position j of the visible rows and position i of the visible columns (both
   from 1), the segments of titles and cells *)
NCols == Len(VisibleCols)
NRows == Len(VisibleRows)
VCell(j, i) == At(At(attr, VisibleRows[j]), VisibleCols[i])
VValue(j, i) == At(At(table, VisibleRows[j]), VisibleCols[i])
Segments(text, is_sep) == IF is_sep THEN split(text, style.sep) ELSE <<text>>
TitleSegments(i) == Segments(ShownCol(i).title, ShownCol(i).is_sep)
CellSegments(j, i) == Segments(format(VCell(j, i).fs, VValue(j, i)), VCell(j, i).is_sep)
HeaderHeight == Longest({Len(TitleSegments(i)) : i \in 1 .. NCols})
RowHeight(j) == Longest({Len(CellSegments(j, i)) : i \in 1 .. NCols})
Width(i) == out.csize_list[i]

(* the first physical line of N segments in a block of M lines *)
Anchor(align, M, N) ==
    IF align \in {"TL", "TC", "TR"} THEN 0
    ELSE IF align \in {"BL", "BC", "BR"} THEN M - N
    ELSE (M - N) \div 2

(* the render cuts long segments: is_partp, or a visible cell of several segments *)
Truncating ==
    style.is_partp \/ \E j \in 1 .. NRows, i \in 1 .. NCols : Len(CellSegments(j, i)) > 1

Blank(n) == [k \in 1 .. n |-> " "]

(* a separator stands before column i *)
Edge(i) == IF i > 1 \/ style.border.left THEN 1 ELSE 0

(* the number of characters before the content of column i, on a line whose
   cells all take their width and offsets *)
RECURSIVE GridFrom(_)
GridFrom(i) ==
    IF i = 1 THEN style.lsh + Edge(1) + ShownCol(1).lofs
    ELSE GridFrom(i - 1) + Width(i - 1) + ShownCol(i - 1).rofs + Edge(i) + ShownCol(i).lofs
GridCell(text, i) == SubSeq(text, GridFrom(i) + 1, GridFrom(i) + Width(i))

(* physical line r (from 0) of the header block, of the row at position j *)
HeaderLine(r) == out.lines[(IF style.border.top THEN 1 ELSE 0) + r + 1]
DataLine(j, r) == out.lines[RowStart(j - 1) + r]
LinesOfRow(j) ==
    {p \in 1 .. Len(out.lines) : IsDataLine(out.lines[p]) /\ out.lines[p].row = j - 1}

(* a segment as a cell of width w shows it when long segments are cut *)
Shown(align, seg, w) ==
    IF Len(seg) > w THEN SubSeq(seg, 1, w - 1) \o <<">">> ELSE justify(align, seg, w)

(* what physical line r of a block of M lines shows of a cell of width w *)
OnLine(align, segs, M, r, w) ==
    LET lo == Anchor(align, M, Len(segs))
    IN  IF lo <= r /\ r < lo + Len(segs) THEN Shown(align, segs[r - lo + 1], w)
        ELSE Blank(w)

(* C16: a cell of N segments in a block whose tallest cell has M segments
   shows them on the physical lines [0, N) for a top alignment, [M-N, M) for
   bottom and [(M-N) div 2, (M-N) div 2 + N) for center, and blanks of the
   column's width on every other line of the block; so for the titles of the
   header block, which has M lines, and for the cells of every row, whose
   block has as many lines as its tallest cell has segments. *)
C16_SegmentsOnTheirLines ==
    Rendered =>
       /\ Cardinality({p \in 1 .. Len(out.lines) : IsHeaderLine(out.lines[p])})
             = HeaderHeight
       /\ \A i \in 1 .. NCols, r \in 0 .. HeaderHeight - 1 :
             /\ IsHeaderLine(HeaderLine(r))
             /\ GridCell(HeaderLine(r).text, i)
                   = OnLine(ShownCol(i).align, TitleSegments(i), HeaderHeight, r, Width(i))
       /\ \A j \in 1 .. NRows : Cardinality(LinesOfRow(j)) = RowHeight(j)
       /\ Truncating =>
             \A j \in 1 .. NRows, i \in 1 .. NCols : \A r \in 0 .. RowHeight(j) - 1 :
                /\ RowStart(j - 1) + r \in LinesOfRow(j)
                /\ GridCell(DataLine(j, r).text, i)
                      = OnLine(VCell(j, i).align, CellSegments(j, i), RowHeight(j), r,
                               Width(i))

(* a render in which a centred cell of one segment stands beside a cell of
   three (its segment on the middle line), and a bottom-aligned title of one
   segment beside a title of two *)
C16_Witness ==
    /\ Rendered
    /\ \E j \in 1 .. NRows, i \in 1 .. NCols :
          /\ VCell(j, i).align = "CC"
          /\ Len(CellSegments(j, i)) = 1
          /\ RowHeight(j) = 3
          /\ GridCell(DataLine(j, 0).text, i) = Blank(Width(i))
          /\ GridCell(DataLine(j, 1).text, i) # Blank(Width(i))
    /\ \E i \in 1 .. NCols :
          /\ ShownCol(i).align = "BR"
          /\ Len(TitleSegments(i)) = 1
          /\ HeaderHeight = 2
          /\ GridCell(HeaderLine(1).text, i) # Blank(Width(i))

(* acc_col_sz: the widths, offsets and left borders of the visible columns up
   to column i *)
RECURSIVE Acc(_)
Acc(i) ==
    IF i = 0 THEN 0
    ELSE Acc(i - 1) + Width(i) + ShownCol(i).lofs + ShownCol(i).rofs
         + (IF style.border.left THEN 1 ELSE 0)

(* the cell at row j, column i goes over its width and the render does not cut *)
Wraps(j, i) == ~Truncating /\ Len(CellSegments(j, i)[1]) > Width(i)

(* the number of characters before the content of column i on the first
   physical line of row j, cells before it having wrapped or not *)
RECURSIVE RowFrom(_, _)
RowFrom(j, i) ==
    IF i = 1 THEN style.lsh + Edge(1) + ShownCol(1).lofs
    ELSE RowFrom(j, i - 1)
         + (IF Wraps(j, i - 1)
            THEN Len(CellSegments(j, i - 1)[1]) + 1 + Acc(i - 1)
            ELSE Width(i - 1) + ShownCol(i - 1).rofs)
         + Edge(i) + ShownCol(i).lofs

(* n characters of row j's first physical line from the content of column i *)
RowCell(j, i, n) == SubSeq(DataLine(j, 0).text, RowFrom(j, i) + 1, RowFrom(j, i) + n)

(* the physical line of row j that shows segment k of the cell in column i *)
SegmentLine(j, i, k) ==
    DataLine(j, Anchor(VCell(j, i).align, RowHeight(j), Len(CellSegments(j, i))) + k - 1)

(* C17: in a render with is_partp set, or in which some visible data cell has
   more than one segment, a segment of a data cell longer than the width of its
   column is shown as its first width-1 characters followed by ">": the cell's
   content is exactly width characters wide and its line as long as every
   other line of the table. *)
C17_LongSegmentCutWithMarker ==
    (Rendered /\ Truncating) =>
       \A j \in 1 .. NRows, i \in 1 .. NCols :
          \A k \in 1 .. Len(CellSegments(j, i)) :
             Len(CellSegments(j, i)[k]) > Width(i) =>
                /\ GridCell(SegmentLine(j, i, k).text, i)
                      = SubSeq(CellSegments(j, i)[k], 1, Width(i) - 1) \o <<">">>
                /\ Len(SegmentLine(j, i, k).text) = BlockWidth
                /\ \A p \in 1 .. BlockWidth : SegmentLine(j, i, k).text[p] # "\n"

(* a render with is_partp unset that cuts a long segment because another
   visible cell has several segments *)
C17_Witness ==
    /\ Rendered
    /\ ~style.is_partp
    /\ \E j \in 1 .. NRows, i \in 1 .. NCols :
          /\ Len(CellSegments(j, i)) = 1
          /\ Len(CellSegments(j, i)[1]) > Width(i)
          /\ GridCell(DataLine(j, 0).text, i)[Width(i)] = ">"
    /\ \E j \in 1 .. NRows, i \in 1 .. NCols : Len(CellSegments(j, i)) > 1

(* C18: a segment of a data cell is cut or wrapped exactly when it is longer
   than the width of its column: a segment not longer than the width, one of
   exactly the width included, is shown whole, justified to the width, with no
   marker and no line break; a longer one, one of width+1 included, is cut
   with the marker when the render cuts, and followed by a line break when it
   does not. *)
C18_OverflowOnlyWhenLonger ==
    Rendered =>
       /\ Truncating =>
             \A j \in 1 .. NRows, i \in 1 .. NCols :
                \A k \in 1 .. Len(CellSegments(j, i)) :
                   IF Len(CellSegments(j, i)[k]) <= Width(i)
                   THEN GridCell(SegmentLine(j, i, k).text, i)
                           = justify(VCell(j, i).align, CellSegments(j, i)[k], Width(i))
                   ELSE GridCell(SegmentLine(j, i, k).text, i)[Width(i)] = ">"
       /\ ~Truncating =>
             \A j \in 1 .. NRows, i \in 1 .. NCols :
                IF Len(CellSegments(j, i)[1]) <= Width(i)
                THEN RowCell(j, i, Width(i) + ShownCol(i).rofs)
                        = justify(VCell(j, i).align, CellSegments(j, i)[1], Width(i))
                          \o Blank(ShownCol(i).rofs)
                ELSE RowCell(j, i, Len(CellSegments(j, i)[1]) + 1)
                        = CellSegments(j, i)[1] \o <<"\n">>

(* a render of a column of declared width 4 with a segment of 4 characters,
   shown whole, beside a column of the same width with a segment of 5 *)
C18_Witness ==
    /\ Rendered
    /\ \E j \in 1 .. NRows, i1, i2 \in 1 .. NCols :
          /\ ShownCol(i1).width = LayoutWidth /\ Width(i1) = LayoutWidth
          /\ Len(CellSegments(j, i1)[1]) = Width(i1)
          /\ ShownCol(i2).width = LayoutWidth /\ Width(i2) = LayoutWidth
          /\ Len(CellSegments(j, i2)[1]) = Width(i2) + 1

(* C19: with is_partp unset and no visible data cell of more than one segment,
   a value longer than the width of its column is written whole, then a line
   break, then as many blanks as the columns up to and including its own take
   (acc_col_sz: width, offsets and left border of each), after which the rest
   of the row follows; the row is one print of two physical lines. *)
C19_WrapWritesWholeValueThenBreaks ==
    (Rendered /\ ~Truncating) =>
       \A j \in 1 .. NRows :
          /\ Cardinality(LinesOfRow(j)) = 1
          /\ \A i \in 1 .. NCols :
                Wraps(j, i) =>
                   RowCell(j, i, Len(CellSegments(j, i)[1]) + 1 + Acc(i))
                      = CellSegments(j, i)[1] \o <<"\n">> \o Blank(Acc(i))

(* a render that wraps a value of 5 characters in a column of declared width 4 *)
C19_Witness ==
    /\ Rendered
    /\ ~Truncating
    /\ \E j \in 1 .. NRows, i \in 1 .. NCols :
          /\ Wraps(j, i)
          /\ ShownCol(i).width = LayoutWidth
          /\ Len(CellSegments(j, i)[1]) = 5

(* C19 as the specification words it: the first width characters, a line
   break, blanks up to the start of the column, then the remaining characters *)
C19_WrapSplitsValueAtWidth ==
    (Rendered /\ ~Truncating) =>
       \A j \in 1 .. NRows, i \in 1 .. NCols :
          Wraps(j, i) =>
             RowCell(j, i, Len(CellSegments(j, i)[1]) + 1 + GridFrom(i))
                = SubSeq(CellSegments(j, i)[1], 1, Width(i)) \o <<"\n">>
                  \o Blank(GridFrom(i))
                  \o SubSeq(CellSegments(j, i)[1], Width(i) + 1,
                            Len(CellSegments(j, i)[1]))

(* the divider lines of a render, and for each the borders of the cells that
   touch it: of the titles, of the row above, of the row below *)
IsDivider(l) == l.site \in {1206, 1264, 1275, 1357, 1358, 1367}
HeadBorders == [i \in 1 .. NCols |-> ShownCol(i).border]
RowBorders(j) == [i \in 1 .. NCols |-> VCell(j, i).border]
Touching(l) ==
    IF l.site \in {1206, 1357, 1358} THEN {HeadBorders}
    ELSE IF l.site = 1264 THEN {HeadBorders, RowBorders(1)}
    ELSE IF l.site = 1275 THEN {RowBorders(l.row), RowBorders(l.row + 1)}
    ELSE {RowBorders(NRows)}

(* the boundary with b columns to its left has a glyph; where it stands *)
Drawn(b) ==
    IF b = 0 THEN style.border.left
    ELSE IF b = NCols THEN style.border.right
    ELSE TRUE
GlyphAt(b) == IF b = NCols THEN BlockWidth ELSE GridFrom(b + 1) - ShownCol(b + 1).lofs

(* a cell beside the boundary declares a border on the side that touches it *)
Declared(l, b) ==
    \E B \in Touching(l) : (b < NCols /\ B[b + 1].left) \/ (b > 0 /\ B[b].right)

CornerGlyph(l) == IF l.site = 1275 THEN style.vcpat ELSE style.hcpat

(* C20: in every divider line (top border, header divider, row divider,
   bottom border) the glyph at a column boundary is the corner glyph when
   cpat_alon is set or when a cell beside the boundary declares a border on
   the touching side (the left edge of the cell to its right, the right edge
   of the cell to its left), the cells being those of the row below the
   divider and, for a divider between two rows, also those of the row above;
   otherwise it is one blank. *)
C20_CornerWhereABorderTouches ==
    Rendered =>
       \A p \in 1 .. Len(out.lines) :
          IsDivider(out.lines[p]) =>
             /\ Len(out.lines[p].text) = BlockWidth
             /\ \A b \in 0 .. NCols :
                   Drawn(b) =>
                      out.lines[p].text[GlyphAt(b)] =
                         IF style.cpat_alon \/ Declared(out.lines[p], b)
                         THEN CornerGlyph(out.lines[p]) ELSE " "

(* a render with cpat_alon unset in which a row divider has a corner that only
   the row above it declares, and the bottom border a blank between two
   columns *)
C20_Witness ==
    /\ Rendered
    /\ ~style.cpat_alon
    /\ NCols = 2
    /\ \E p \in 1 .. Len(out.lines) :
          /\ IsRowDivider(out.lines[p])
          /\ ~RowBorders(out.lines[p].row + 1)[2].left
          /\ ~RowBorders(out.lines[p].row + 1)[1].right
          /\ out.lines[p].text[GlyphAt(1)] = style.vcpat
    /\ \E p \in 1 .. Len(out.lines) :
          /\ IsBottomBorder(out.lines[p])
          /\ out.lines[p].text[GlyphAt(1)] = " "

(* no segment of a visible data cell is longer than the width of its column *)
Fitting ==
    \A j \in 1 .. NRows, i \in 1 .. NCols :
       \A k \in 1 .. Len(CellSegments(j, i)) : Len(CellSegments(j, i)[k]) <= Width(i)

Glyphs == {style.spat, style.hcpat, style.vcpat}

(* C21: in a render with is_partp set, or in which no segment of a visible
   data cell is longer than the width of its column, every line printed (the
   borders, the header lines, the dividers, the data lines) has the length
   lsh + the sum over the visible columns of width + lofs + rofs + the number
   of visible columns - 1, + 1 when the table's left border is enabled and + 1
   when its right border is; at every column boundary that has a character
   stands a glyph or one blank. *)
C21_EveryLineSameLength ==
    (Rendered /\ (style.is_partp \/ Fitting)) =>
       \A p \in 1 .. Len(out.lines) :
          /\ Len(out.lines[p].text) = BlockWidth
          /\ \A b \in 0 .. NCols :
                Drawn(b) => out.lines[p].text[GlyphAt(b)] \in Glyphs \cup {" "}

(* a render of two rows and two columns, shifted, with offsets declared and
   without a right border, is_partp unset and every segment fitting, in which
   a data line and a divider have a blank at the boundary between the columns *)
C21_Witness ==
    /\ Rendered
    /\ ~style.is_partp /\ Fitting
    /\ style.lsh > 0 /\ ~style.border.right
    /\ NCols = 2 /\ NRows = 2
    /\ ShownCol(1).lofs = LineOffsets[1] /\ ShownCol(1).rofs = LineOffsets[2]
    /\ \E p \in 1 .. Len(out.lines) :
          IsDataLine(out.lines[p]) /\ out.lines[p].text[GlyphAt(1)] = " "
    /\ \E p \in 1 .. Len(out.lines) :
          IsDataLine(out.lines[p]) /\ out.lines[p].text[GlyphAt(1)] = style.spat
    /\ \E p \in 1 .. Len(out.lines) : IsRowDivider(out.lines[p])

(* every visible title and every visible cell has one segment *)
SingleSegments ==
    /\ \A i \in 1 .. NCols : Len(TitleSegments(i)) = 1
    /\ \A j \in 1 .. NRows, i \in 1 .. NCols : Len(CellSegments(j, i)) = 1

(* the line shows, in the first visible column, the cell of the row at
   position j of the selection: its value whole where it goes over the width
   and is not cut, else cut or justified to the width *)
ShowsRow(l, j) ==
    IF Wraps(j, 1)
    THEN SubSeq(l.text, GridFrom(1) + 1, GridFrom(1) + Len(CellSegments(j, 1)[1]))
         = CellSegments(j, 1)[1]
    ELSE GridCell(l.text, 1) = Shown(VCell(j, 1).align, CellSegments(j, 1)[1], Width(1))

(* C22: a render of R >= 1 visible rows in which every visible title and
   every visible cell has one segment, in a table with its four outer borders
   enabled and no divider interval, prints exactly R + 4 lines: the top
   border, one header line, the header divider, one line for each visible row
   in the order of the selection, the bottom border, and nothing after it.  A
   value that wraps stays inside the one line printed for its row. *)
C22_LinesOfAPlainRender ==
    (/\ Rendered
     /\ NRows >= 1
     /\ SingleSegments
     /\ style.border = DefaultBorder
     /\ style.rdiv_cnt.inf) =>
       /\ Len(out.lines) = NRows + 4
       /\ IsTopBorder(out.lines[1])
       /\ IsHeaderLine(out.lines[2])
       /\ out.lines[3].site = 1264
       /\ \A j \in 1 .. NRows :
             /\ IsDataLine(out.lines[3 + j])
             /\ out.lines[3 + j].row = j - 1
             /\ ShowsRow(out.lines[3 + j], j)
       /\ out.lines[NRows + 4].site = 1367

(* such a render of two rows selected in reverse order, whose second line of
   data shows a value whole that is longer than its column *)
C22_Witness ==
    /\ Rendered
    /\ SingleSegments
    /\ style.border = DefaultBorder
    /\ style.rdiv_cnt.inf
    /\ out.row = IntSel(<<1, 0>>)
    /\ NRows = 2
    /\ Len(out.lines) = 6
    /\ Wraps(2, 1) /\ ~Wraps(1, 1)
    /\ CellSegments(1, 1) # CellSegments(2, 1)

(* the number of positions a slice names in a list of n descriptors, -1 when
   a bound of the slice does not resolve *)
Span(idata, sl, n) ==
    IF get_index(idata, sl, 2).raised # "" THEN -1
    ELSE Len(Indices(get_index(idata, sl, 2).v.st, get_index(idata, sl, 2).v.ed, n))

(* the index names a row of the table *)
NamesRow(idx) ==
    /\ get_index(index, idx, 1).raised = ""
    /\ InRange(get_index(index, idx, 1).v, max_row)

(* a grid of m rows of n values has the dimensions of a range of R rows by C
   columns *)
SameShape(m, n, R, C) == m = R /\ (m = 0 \/ n = C)

(* C23: table[row] = values with a list shorter or longer than the row,
   table[r0:r1] = grid and table[rows, cols] = grid with a grid whose number of
   rows or of columns differs from the range named, raise an error. *)
C23_MismatchedAssignmentFails ==
    /\ \A idx \in RowIdx, n \in 0 .. Len(header) + 1 :
          (NamesRow(idx) /\ n # Len(header)) =>
             setitem(Self, idx, List(n)).raised # ""
    /\ \A sl \in RowSlices, m \in 0 .. max_row + 1, n \in 1 .. Len(header) + 1 :
          (/\ Span(index, sl, max_row) >= 0
           /\ ~SameShape(m, n, Span(index, sl, max_row), Len(header))) =>
             setitem(Self, sl, Grid(m, n)).raised # ""
    /\ \A rs \in RowSlices, cs \in ColSlices :
          \A m \in 0 .. max_row + 1, n \in 1 .. Len(header) + 1 :
             (/\ Span(index, rs, max_row) >= 0
              /\ Span(header, cs, Len(header)) >= 0
              /\ ~SameShape(m, n, Span(index, rs, max_row), Span(header, cs, Len(header)))) =>
                setitem(Self, Pair(rs, cs), Grid(m, n)).raised # ""

(* the position that trades places with p when a and b are exchanged *)
Traded(p, a, b) == IF p = a THEN b ELSE IF p = b THEN a ELSE p

(* what stands at position p (from 1) of the rows and of the columns of a
   table: the descriptor with the values and the attributes attached to it *)
RowAt(t, p) == <<t.index[p], t.table[p], t.attr[p]>>
ColumnAt(t, p) ==
    <<t.header[p],
      [r \in 1 .. Len(t.table) |->
          IF p <= Len(t.table[r]) THEN <<t.table[r][p], t.attr[r][p]>> ELSE <<>>]>>

UniqueKeys(head) ==
    \A p, q \in 1 .. Len(head) : head[p].key = head[q].key => p = q

(* swap_row(i1, i2), when it returns, has exchanged the rows at the two
   positions, and a second swap_row(i1, i2) gives the table back *)
RowsExchanged(i1, i2) ==
    LET r == swap_row(Self, i1, i2)
        a == PyIdx(IdOf(index, i1).v, Len(index)) + 1
        b == PyIdx(IdOf(index, i2).v, Len(index)) + 1
    IN  r.raised = "" =>
           /\ Len(r.self.index) = Len(index)
           /\ \A p \in 1 .. Len(index) : RowAt(r.self, p) = RowAt(Self, Traded(p, a, b))
           /\ r.self.header = header
           /\ i1.t = i2.t => swap_row(r.self, i1, i2) = Returned(Self)
           /\ UniqueKeys(index) => UniqueKeys(r.self.index)

ColsExchanged(i1, i2) ==
    LET r == swap_col(Self, i1, i2)
        a == PyIdx(IdOf(header, i1).v, Len(header)) + 1
        b == PyIdx(IdOf(header, i2).v, Len(header)) + 1
    IN  r.raised = "" =>
           /\ Len(r.self.header) = Len(header)
           /\ \A p \in 1 .. Len(header) :
                 ColumnAt(r.self, p) = ColumnAt(Self, Traded(p, a, b))
           /\ r.self.index = index
           /\ i1.t = i2.t => swap_col(r.self, i1, i2) = Returned(Self)
           /\ UniqueKeys(header) => UniqueKeys(r.self.header)

(* C24: swap_row(i, j) and swap_col(i, j) exchange what stands at the two
   positions, descriptor, values and attributes together, and leave every
   other row and column as it was; the same swap applied again restores the
   table; keys that were unique before a swap or a delete are unique after
   it. *)
C24_SwapExchangesWholeRowsAndColumns ==
    /\ \A i1, i2 \in Idxs(max_row) : RowsExchanged(i1, i2)
    /\ \A i1, i2 \in Idxs(Len(header)) : ColsExchanged(i1, i2)
    /\ \A idx \in Idxs(max_row) :
          (del_row(Self, idx).raised = "" /\ UniqueKeys(index)) =>
             UniqueKeys(del_row(Self, idx).self.index)
    /\ \A idx \in Idxs(Len(header)) :
          (del_col(Self, idx).raised = "" /\ UniqueKeys(header)) =>
             UniqueKeys(del_col(Self, idx).self.header)

(* the cells of the table, and those whose border a step changed *)
CellsOf(a) == UNION {{<<r, c>> : c \in 1 .. Len(a[r])} : r \in 1 .. Len(a)}
Touched == {p \in CellsOf(attr) : attr'[p[1]][p[2]].border # attr[p[1]][p[2]].border}

(* C25: in a table built by add_row and add_col, with or without a border
   given, setting one edge flag of the border of one cell changes the border
   of no other cell: no two cells refer to the same Border object. *)
C25_NoTwoCellsShareABorder ==
    [][(call' = "attr.border" /\ raised' = "") => Cardinality(Touched) <= 1]_vars

(* no visible cell of the render wraps *)
Unwrapped == \A j \in 1 .. NRows, i \in 1 .. NCols : ~Wraps(j, i)

(* C26: in every line of a data row the character between two adjacent
   visible cells is the separator glyph when the cell on the left declares its
   right border or the cell on the right declares its left border, as in the
   header lines and at the corners of the dividers, and one blank otherwise. *)
C26_DataSeparatorWhereEitherCellDeclares ==
    (Rendered /\ Unwrapped) =>
       \A p \in 1 .. Len(out.lines) :
          IsDataLine(out.lines[p]) =>
             \A b \in 1 .. NCols - 1 :
                out.lines[p].text[GlyphAt(b)] =
                   IF \/ RowBorders(out.lines[p].row + 1)[b].right
                      \/ RowBorders(out.lines[p].row + 1)[b + 1].left
                   THEN style.spat ELSE " "

====
